---- MODULE Spec2Model ----
(***************************************************************************)
(* Learneitaa: the App class of the vocabulary game (src/unnamed/part_000). *)
(* The model covers the ProgressionController / ProgressStore part of the   *)
(* class: session state, per-game progress, localStorage, the translate     *)
(* countdown, and the delayed callbacks (setTimeout / setInterval) through  *)
(* which every level transition runs.                                       *)
(*                                                                          *)
(* Pending setTimeout callbacks wait in `timeouts`, in scheduling order,    *)
(* each with the delay it was scheduled with; a callback may fire once no   *)
(* callback scheduled before it with the same or a shorter delay is still   *)
(* waiting (timers fire in deadline order).  Active setInterval handles     *)
(* are the elements of `intervals`.  Apart from that order, the player's    *)
(* events, the timeouts and the ticks interleave freely: the model allows   *)
(* every timing the browser can produce.                                    *)
(*                                                                          *)
(* Spec is the program.  SpecObserved is the same program with an observer  *)
(* that counts the Outcomes of the Challenge on screen and remembers the    *)
(* Outcome whose delayed callback is pending; no action of the program      *)
(* reads the observer's variables.                                          *)
(***************************************************************************)
EXTENDS Integers, Sequences, FiniteSets, TLC

(* ------------------------------ bounds --------------------------------- *)
\* this.maxLevels is 200 in the source (line 32); the model runs the same
\* code with a small number of levels per completion cycle.
maxLevels == 2
\* No Succeeded outcome is taken once currentLevel has reached LevelCap,
\* except one on the screen of a game that has just been completed.
LevelCap == maxLevels
\* No Succeeded outcome is taken once MaxMedals medals have been awarded,
\* except one on the screen of a game that has just been completed.
MaxMedals == 1
\* An Outcome (an input of the player, a countdown expiry) is taken while
\* fewer than MaxTimeouts setTimeout callbacks are pending.
MaxTimeouts == 2
\* The hangman player guesses among the letters of the target word and the
\* first MaxAbsent letters of absentLetters.
MaxAbsent == 6
\* The letter-assembly player taps a tile only while the buffer would hold
\* at most MaxWrongTaps letters that differ from the target at their place.
MaxWrongTaps == 1
\* The 4 blanked positions of a sequence Challenge are drawn among the
\* first MaxBlank positions of the list.
MaxBlank == 5
\* A random value is drawn among the MaxRand - 1 smallest values of its
\* range and the largest one.
MaxRand == 4
\* The choice renderers run at the levels 0..MaxGenLevel.
MaxGenLevel == 41
\* numberToWords is applied to the numbers 0..MaxNumber.
MaxNumber == 1001
\* The loop that draws the blanked positions of a sequence Challenge is
\* followed over at most MaxRejects draws of a position it already holds.
MaxRejects == 1
\* The number renderers run at the levels 0..MaxGenLevel and at the levels
\* from the one before the cap of the range to MaxPastCap levels past it.
MaxPastCap == 2
\* A distractor of a category Challenge is drawn among the values of
\* MaxRand and the MaxNear entries that follow the selected one.
MaxNear == 1
\* The hangman hint is followed in sessions opened at the levels
\* 0..MaxHintLevel.
MaxHintLevel == 4

(* ------------------------- program constants --------------------------- *)
SCORE_INC == 10
\* renderTranslateGame: Math.max(3, 10 - Math.floor(level / 5))
TIME_BASE == 10
TIME_MIN == 3
TIME_STEP == 5
\* constructor: this.timeLeft = 30
TIME_INIT == 30
\* setTimeout delays, in ms
DELAY_NEXT == 2000
DELAY_FAIL == 2000
DELAY_EXPIRY == 1000
DELAY_MENU == 1000
\* moveWord: setTimeout(() => this.renderLevel(), 2500)
DELAY_SENTENCE == 2500
\* renderHangmanGame: this.maxMistakes = 6
maxMistakes == 6
\* renderGuessGame: 3 + extraDifficulty random letters join the tiles
EXTRAS_BASE == 3
EXTRAS_MAX == 6
EXTRAS_STEP == 5
\* renderSequencePlacementGame: while(missingIndices.length < 4)
BLANKS == 4
\* the choice renderers: while(options.length < 4)
OPTIONS == 4
\* renderNumToWordGame: Math.min(300, 20 + level), random() * (range + 10)
RANGE_BASE == 20
RANGE_MAX == 300
RANGE_EXTRA == 10

\* The game types of the model: the timed choice game (checkTranslate, the
\* only variant with a countdown) and one untimed choice game (checkChoice).
\* Every other variant reports its Outcome through the same two calls,
\* successAction() or failAction() followed by setTimeout(renderLevel).
GAME_TYPES == {"translate", "animal"}
NoGame == "null"
\* no item selected, no value drawn
NoData == [src |-> "none", idx |-> 0]
\* this.currentGrammarData and this.grammarStep before the first grammar
\* Challenge: the constructor assigns neither (undefined)
NoItem == -1
NoStep == 0
\* no hint drawn yet
NoHint == NoItem
NoRand == -1
NoHandle == 0

VARIABLES
    score,            \* this.score
    currentLevel,     \* this.currentLevel
    currentGame,      \* this.currentGame (NoGame = null)
    timerInterval,    \* this.timerInterval (NoHandle = null)
    timeLeft,         \* this.timeLeft
    progress,         \* this.progress
    pendingGameType,  \* this.pendingGameType
    stored,           \* localStorage['learnita_v3_progress']: <<>> or <<doc>>
    timeouts,         \* pending setTimeout callbacks, in scheduling order
    intervals,        \* active setInterval handles
    screen,           \* "menu" or "game": which of #main-menu / #game-screen is shown
    modalOpen,        \* #modal-overlay is shown
    chGame,           \* game whose Challenge is in #game-content
    chLevel,          \* level that Challenge was generated for
    hangmanWord,      \* this.hangmanWord, a sequence of letters (<<>> = unset)
    guessedLetters,   \* this.guessedLetters
    mistakes,         \* this.mistakes
    hint,             \* the hint updateHangmanUI wrote into #game-content
    currentGuess,     \* this.currentGuess, a sequence of letters
    letterPool,       \* the buttons of #letter-pool: the letter of each tile
    usedIdx,          \* dataset.usedIdx of each tile (NoIdx: none, tile available)
    constructedSentence, \* this.constructedSentence
    targetSentence,   \* this.targetSentence
    poolChips,        \* the words of the chips in #sentence-pool
    fullList,         \* this.fullList
    missingIndices,   \* this.missingIndices, as a set of 0-based positions
    slotText,         \* innerText of the .sequence-slot of each blanked position
    hiddenChips,      \* the values of the #order-pool buttons with class hidden
    data,             \* the item a choice renderer selected (`word`, `data`, `val`)
    options,          \* the local array `options` of a choice renderer
    rand,             \* the latest value drawn in the loop of a choice renderer
    currentGrammarData, \* this.currentGrammarData, as the index of the entry
    grammarStep,      \* this.grammarStep
    outcomes,         \* observer: Outcomes produced by the Challenge in #game-content
    feedback,         \* observer: the latest step of a grammar session and what it emitted
    awaiting          \* observer: the latest Outcome whose delayed callback has not run

vars == <<score, currentLevel, currentGame, timerInterval, timeLeft, progress,
          pendingGameType, stored, timeouts, intervals, screen,
          modalOpen, chGame, chLevel, hangmanWord, guessedLetters, mistakes, hint,
          currentGuess, letterPool, usedIdx, constructedSentence, targetSentence,
          poolChips, fullList, missingIndices, slotText, hiddenChips,
          data, options, rand, currentGrammarData, grammarStep, outcomes,
          feedback, awaiting>>

session == <<score, currentLevel, currentGame>>
timer == <<timerInterval, timeLeft, intervals>>
challenge == <<chGame, chLevel>>
\* the fields of the variant engines, set by the render function of the
\* variant and read by its input handlers
hangman == <<hangmanWord, guessedLetters, mistakes, hint>>
guess == <<currentGuess, letterPool, usedIdx>>
sentence == <<constructedSentence, targetSentence, poolChips>>
sequence == <<fullList, missingIndices, slotText, hiddenChips>>
\* the local variables of the choice renderers
choice == <<data, options, rand>>
\* the fields of the grammar engine
grammar == <<currentGrammarData, grammarStep>>
engines == <<hangman, guess, sentence, sequence, grammar, choice>>
\* the variables of the observer: they record what the program did and are
\* read by no action of the program
observer == <<outcomes, feedback, awaiting>>

(* ----------------------------- helpers --------------------------------- *)
DefaultRecord == [level |-> 0, medals |-> 0, completed |-> FALSE]

\* Stored texts that are not the JSON text of a map: a text JSON.parse
\* throws on, the text "null", the text of a number.  A map is a function
\* on game types; none of these three is one.
Unparsable == [notAMap |-> "unparsable"]
JsonNull == [notAMap |-> "null"]
JsonNumber == [notAMap |-> "number"]

\* loadProgress: the value JSON.parse returns when a text is stored and
\* parses, otherwise (nothing stored, or the parse throws) a fresh record
\* per game type.
loadProgress(doc) ==
    IF Len(doc) > 0 /\ doc[1] # Unparsable
    THEN doc[1]
    ELSE [g \in GAME_TYPES |-> DefaultRecord]

\* saveProgress: localStorage.setItem(key, JSON.stringify(this.progress))
saveProgress(p) == <<p>>

Min(a, b) == IF a < b THEN a ELSE b
Max(a, b) == IF a > b THEN a ELSE b

\* renderTranslateGame: the countdown length of a level
timeLimit(level) == Max(TIME_MIN, TIME_BASE - (level \div TIME_STEP))

\* clearInterval(h): h stops being active (no effect on an inactive handle)
clearInterval(iv, h) == iv \ {h}

\* setInterval: a handle that is not active
Handles(iv) == 1..(Cardinality(iv) + 1)
newHandle(iv) == CHOOSE h \in Handles(iv) :
                    /\ h \notin iv
                    /\ \A k \in Handles(iv) : k \notin iv => h <= k
setInterval(iv, h) == iv \cup {h}

\* setTimeout(cb, d): the closures capture nothing but `this`; they read
\* this.currentGame and this.currentLevel when they run.
setTimeout(q, kind, d) == Append(q, [kind |-> kind, delay |-> d])

RemoveAt(q, i) == [j \in 1..(Len(q) - 1) |-> IF j < i THEN q[j] ELSE q[j + 1]]

\* observer: an Outcome; game and level are those of the Challenge that its
\* delayed callback is to generate (Succeeded: the current game at the new
\* level; Failed: the Challenge that failed)
Outcome(kind, g, l) == [outcome |-> kind, game |-> g, level |-> l]
NoOutcome == Outcome("none", NoGame, 0)
\* observer: the call of a grammar handler with its argument (an index is
\* written in decimal) and the feedback it emitted
Call(handler, arg, emitted) == [handler |-> handler, arg |-> arg, emitted |-> emitted]
NoFeedback == Call("none", "", "none")
\* the callback that settles an Outcome has run
Settled(kind) == IF awaiting.outcome = kind THEN NoOutcome ELSE awaiting

TypeOK ==
    /\ score \in Nat
    /\ currentLevel \in 0..(LevelCap + 1)
    /\ currentGame \in GAME_TYPES \cup {NoGame}
    /\ timerInterval \in Nat
    /\ timeLeft \in 0..TIME_INIT
    /\ progress \in [GAME_TYPES -> [level : 0..(LevelCap + 1), medals : 0..(MaxMedals + MaxTimeouts), completed : BOOLEAN]]
    /\ pendingGameType \in GAME_TYPES \cup {NoGame}
    /\ Len(stored) <= 1
    /\ Len(timeouts) <= MaxTimeouts
    /\ intervals \subseteq Nat
    /\ screen \in {"menu", "game"}
    /\ modalOpen \in BOOLEAN
    /\ chGame \in GAME_TYPES \cup {NoGame}
    /\ outcomes \in 0..2

(* --------------------------- construction ------------------------------ *)
\* constructor + init + finishSplash, with `doc` in localStorage
Construct(doc) ==
    /\ score = 0
    /\ currentLevel = 0
    /\ currentGame = NoGame
    /\ timerInterval = NoHandle
    /\ timeLeft = TIME_INIT
    /\ progress = loadProgress(doc)
    /\ pendingGameType = NoGame
    /\ stored = doc
    /\ timeouts = <<>>
    /\ intervals = {}
    /\ screen = "menu"
    /\ modalOpen = FALSE
    /\ chGame = NoGame
    /\ chLevel = 0
    /\ hangmanWord = <<>>
    /\ guessedLetters = {}
    /\ mistakes = 0
    /\ hint = NoHint
    /\ currentGuess = <<>>
    /\ letterPool = <<>>
    /\ usedIdx = <<>>
    /\ constructedSentence = <<>>
    /\ targetSentence = <<>>
    /\ poolChips = {}
    /\ fullList = <<>>
    /\ missingIndices = {}
    /\ slotText = <<>>
    /\ hiddenChips = {}
    /\ data = NoData
    /\ options = <<>>
    /\ rand = NoRand
    /\ currentGrammarData = NoItem
    /\ grammarStep = NoStep
    /\ outcomes = 0
    /\ feedback = NoFeedback
    /\ awaiting = NoOutcome

Init == Construct(<<>>)

(* ------------------------------ timer ---------------------------------- *)
\* stopTimer: clearInterval(this.timerInterval); the handle itself is kept
stopTimer == intervals' = clearInterval(intervals, timerInterval)

\* startTimer without its clearInterval(this.timerInterval)
startTimer_noClear(seconds) ==
    /\ timeLeft' = seconds
    /\ timerInterval' = newHandle(intervals)
    /\ intervals' = setInterval(intervals, newHandle(intervals))

\* startTimer(seconds): set timeLeft, clear the previous interval, start a
\* new one and remember its handle
startTimer(seconds) ==
    LET cleared == clearInterval(intervals, timerInterval) IN
    /\ timeLeft' = seconds
    /\ timerInterval' = newHandle(cleared)
    /\ intervals' = setInterval(cleared, newHandle(cleared))

(* ------------------------ variant renderers ---------------------------- *)
\* the distinct elements of a sequence
Letters(w) == {w[i] : i \in DOMAIN w}

\* renderHangmanGame: the local list `words`
hangmanWords == <<
    <<"G", "A", "L", "A", "X", "Y">>,
    <<"P", "Y", "T", "H", "O", "N">>,
    <<"G", "U", "I", "T", "A", "R">>,
    <<"O", "R", "A", "N", "G", "E">> >>

\* getVocabData('hangman'): the `word` of each entry.  A hint is written as
\* the 0-based index of its entry; the 4 entries of hangmanWords have the
\* words and the hints of the first 4 entries of this list, and the 14
\* hints are pairwise distinct
hangmanLibrary == <<
    <<"G", "A", "L", "A", "X", "Y">>,
    <<"P", "Y", "T", "H", "O", "N">>,
    <<"G", "U", "I", "T", "A", "R">>,
    <<"O", "R", "A", "N", "G", "E">>,
    <<"C", "O", "M", "P", "U", "T", "E", "R">>,
    <<"A", "I", "R", "P", "L", "A", "N", "E">>,
    <<"K", "E", "Y", "B", "O", "A", "R", "D">>,
    <<"M", "O", "U", "N", "T", "A", "I", "N">>,
    <<"L", "I", "B", "R", "A", "R", "Y">>,
    <<"D", "I", "A", "M", "O", "N", "D">>,
    <<"U", "M", "B", "R", "E", "L", "L", "A">>,
    <<"V", "O", "L", "C", "A", "N", "O">>,
    <<"S", "U", "N", "G", "L", "A", "S", "S">>,
    <<"H", "O", "S", "P", "I", "T", "A", "L">> >>

\* letters of the keyboard of updateHangmanUI that occur in no word of
\* hangmanWords, in alphabet order
absentLetters == <<"B", "C", "D", "F", "J", "K", "M", "Q", "S", "V", "W", "Z">>

\* the keys the player presses on a Challenge with target word w
GuessLetters(w) == Letters(w) \cup {absentLetters[i] : i \in 1..MaxAbsent}

\* words[this.currentLevel % words.length]
hangmanWordAt(level) == hangmanWords[(level % Len(hangmanWords)) + 1]

\* renderHangmanGame: the word of the level, no guessed letter, no mistake;
\* its updateHangmanUI draws the blanks and reports nothing (the word is
\* not covered and mistakes is 0)
renderHangmanGame(level) ==
    /\ hangmanWord' = hangmanWordAt(level)
    /\ guessedLetters' = {}
    /\ mistakes' = 0
    /\ hint' = level % Len(hangmanWords)

\* renderGuessGame: the answers of this.guessPool
guessPool == <<
    <<"A", "P", "P", "L", "E">>,
    <<"P", "U", "Z", "Z", "L", "E">>,
    <<"L", "I", "O", "N">>,
    <<"D", "O", "C", "T", "O", "R">>,
    <<"C", "O", "L", "O", "R">> >>

\* this.guessPool[this.currentLevel % this.guessPool.length].answer
guessAnswer(level) == guessPool[(level % Len(guessPool)) + 1]

\* the random letters of the model: one that occurs in answers, one that
\* occurs in none
ExtraLetters == {"P", "Q"}
\* extras that do not grow with the level
Extras_flat(level) ==
    LET n == EXTRAS_BASE
    IN  {e \in [1..n -> ExtraLetters] :
            \A i \in 1..(n - 1) : e[i] = "P" \/ e[i + 1] = "Q"}

\* extras: 3 + min(6, floor(level / 5)) letters drawn at random.  The tiles
\* are shuffled afterwards: the model draws the extras in alphabet order.
Extras(level) ==
    LET n == EXTRAS_BASE + Min(EXTRAS_MAX, level \div EXTRAS_STEP)
    IN  {e \in [1..n -> ExtraLetters] :
            \A i \in 1..(n - 1) : e[i] = "P" \/ e[i + 1] = "Q"}

Reverse(str) == [i \in 1..Len(str) |-> str[Len(str) + 1 - i]]
\* shuffleString(str): a permutation of str chosen by the random comparator;
\* the model draws it from two permutations
shuffleString(str) == {str, Reverse(str)}

NoIdx == -1

\* renderGuessGame: the tiles are the shuffled letters of the answer and of
\* the extras, the buffer is empty and no tile is used
renderGuessGame(level) ==
    /\ \E extras \in Extras(level) :
          letterPool' \in shuffleString(guessAnswer(level) \o extras)
    /\ currentGuess' = <<>>
    /\ usedIdx' = [t \in DOMAIN letterPool' |-> NoIdx]

\* getVocabData('sentences'): the words of each sentence
sentences == <<
    <<"I", "am", "a", "student">>,
    <<"The", "cat", "is", "sleeping">>,
    <<"We", "love", "English">>,
    <<"She", "is", "playing", "football">>,
    <<"He", "reads", "a", "big", "book">>,
    <<"They", "go", "to", "school", "everyday">>,
    <<"It", "is", "a", "sunny", "beautiful", "day">>,
    <<"Learning", "languages", "is", "very", "exciting">>,
    <<"Can", "you", "help", "me", "please">>,
    <<"I", "want", "to", "drink", "some", "water">>,
    <<"Where", "is", "the", "library">>,
    <<"My", "brother", "works", "in", "a", "bank">>,
    <<"The", "birds", "are", "flying", "in", "the", "sky">>,
    <<"She", "has", "a", "red", "dress">>,
    <<"We", "watch", "TV", "at", "night">> >>

\* pool[this.currentLevel % pool.length].words
sentenceAt(level) == sentences[(level % Len(sentences)) + 1]

\* renderSentenceGame: one chip per word in #sentence-pool (in a random
\* order that no handler reads), nothing placed
renderSentenceGame(level) ==
    /\ targetSentence' = sentenceAt(level)
    /\ constructedSentence' = <<>>
    /\ poolChips' = Letters(sentenceAt(level))

\* renderDaysGame / renderMonthsGame: the lists
days == <<"Monday", "Tuesday", "Wednesday", "Thursday", "Friday", "Saturday",
          "Sunday">>
months == <<"January", "February", "March", "April", "May", "June", "July",
            "August", "September", "October", "November", "December">>
SequenceGames == {"days", "months"}
sequenceList(g) == IF g = "days" THEN days ELSE months

\* an includes that never finds r
includes_never(array, r) == FALSE

\* missingIndices.includes(r)
includes(array, r) == \E k \in DOMAIN array : array[k] = r

\* the while loop of renderSequencePlacementGame: draws holds the successive
\* values r of Math.floor(Math.random() * fullList.length); r is pushed
\* unless missingIndices includes it, until 4 positions are held
RECURSIVE pushMissing(_, _)
pushMissing(array, draws) ==
    IF Len(array) >= BLANKS \/ draws = <<>> THEN array
    ELSE IF includes(array, Head(draws)) THEN pushMissing(array, Tail(draws))
    ELSE pushMissing(Append(array, Head(draws)), Tail(draws))

\* the positions held after the loop has run over one of the sequences of
\* BLANKS + MaxRejects values drawn from 0..(n - 1)
MissingOf(n) ==
    LET runs == {pushMissing(<<>>, d) : d \in [1..(BLANKS + MaxRejects) -> 0..(n - 1)]}
    IN  {{a[k] : k \in DOMAIN a} : a \in {r \in runs : Len(r) = BLANKS}}

MissingTable == [n \in {Min(MaxBlank, Len(days)), Min(MaxBlank, Len(months))} |-> MissingOf(n)]

\* the results of the random draw of 4 distinct positions of the list
MissingChoices(list) == MissingTable[Min(MaxBlank, Len(list))]

\* renderSequencePlacementGame(fullList, ...): 4 blanked slots, all empty,
\* and their 4 values as buttons of #order-pool (in a random order that no
\* handler reads)
renderSequencePlacementGame(list) ==
    /\ fullList' = list
    /\ missingIndices' \in MissingChoices(list)
    /\ slotText' = [i \in missingIndices' |-> ""]
    /\ hiddenChips' = {}

(* --------------------------- renderLevel ------------------------------- *)
\* getVocabData('grammar'); wrongIdx is 0-based as in the source
grammarPool == <<
    [words |-> <<"She", "don't", "like", "apples.">>, wrongIdx |-> 1,
     correct |-> "doesn't", options |-> {"doesn't", "don't", "isn't", "doing"}],
    [words |-> <<"He", "go", "to", "school.">>, wrongIdx |-> 1,
     correct |-> "goes", options |-> {"goes", "going", "gone", "goed"}],
    [words |-> <<"They", "is", "happy.">>, wrongIdx |-> 1,
     correct |-> "are", options |-> {"are", "am", "was", "were"}],
    [words |-> <<"I", "has", "a", "pen.">>, wrongIdx |-> 1,
     correct |-> "have", options |-> {"have", "had", "am having", "has"}],
    [words |-> <<"We", "was", "at", "home.">>, wrongIdx |-> 1,
     correct |-> "were", options |-> {"were", "are", "been", "was"}],
    [words |-> <<"She", "study", "every", "day.">>, wrongIdx |-> 1,
     correct |-> "studies", options |-> {"studies", "studying", "studied", "study"}],
    [words |-> <<"It", "look", "good.">>, wrongIdx |-> 1,
     correct |-> "looks", options |-> {"looks", "look", "looking", "looked"}],
    [words |-> <<"You", "am", "my", "friend.">>, wrongIdx |-> 1,
     correct |-> "are", options |-> {"are", "is", "am", "be"}],
    [words |-> <<"Children", "is", "playing.">>, wrongIdx |-> 1,
     correct |-> "are", options |-> {"are", "was", "is", "be"}],
    [words |-> <<"I", "sees", "the", "moon.">>, wrongIdx |-> 1,
     correct |-> "see", options |-> {"see", "saw", "seeing", "sees"}],
    [words |-> <<"He", "never", "eat", "fish.">>, wrongIdx |-> 2,
     correct |-> "eats", options |-> {"eats", "ate", "eating", "eat"}],
    [words |-> <<"They", "was", "very", "tired.">>, wrongIdx |-> 1,
     correct |-> "were", options |-> {"were", "are", "was", "been"}] >>

\* pool[this.currentLevel % pool.length], as the index of the entry
grammarAt(l) == l % Len(grammarPool)

\* renderLevel for this.currentGame = g and this.currentLevel = l: replaces
\* the content of #game-content by a new Challenge.  renderTranslateGame
\* starts the countdown; no branch stops a countdown.  The options a choice
\* renderer writes into #game-content are produced by the actions of the
\* choice renderers further down (selectItem, drawOption, showOptions,
\* renderColorsGame); here a choice Challenge is its game and its level.
renderLevel(g, l) ==
    /\ chGame' = g
    /\ chLevel' = l
    /\ IF g = "translate" THEN startTimer(timeLimit(l)) ELSE UNCHANGED timer
    /\ IF g = "hangman" THEN renderHangmanGame(l) ELSE UNCHANGED hangman
    /\ IF g = "guess" THEN renderGuessGame(l) ELSE UNCHANGED guess
    /\ IF g = "sentence" THEN renderSentenceGame(l) ELSE UNCHANGED sentence
    /\ IF g \in SequenceGames
       THEN renderSequencePlacementGame(sequenceList(g))
       ELSE UNCHANGED sequence
    /\ IF g = "grammar"
       THEN /\ currentGrammarData' = grammarAt(l)
            /\ grammarStep' = 1
       ELSE UNCHANGED grammar
    /\ UNCHANGED choice

(* ----------------------- successAction / failAction -------------------- *)
\* successAction: score += 10; currentLevel++; the record of currentGame
\* takes the new level; nextLevel is scheduled (2000 ms: the 1500 ms branch
\* needs a non-empty answerText, which days/months never pass).
successAction(q) ==
    /\ score' = score + SCORE_INC
    /\ currentLevel' = currentLevel + 1
    /\ progress' = [progress EXCEPT ![currentGame].level = currentLevel + 1]
    /\ timeouts' = setTimeout(q, "next", DELAY_NEXT)
    /\ UNCHANGED stored

\* a failAction that sends the player back one level
failAction_levelDown ==
    /\ currentLevel' = Max(currentLevel - 1, 0)
    /\ progress' = [progress EXCEPT ![currentGame].level = Max(currentLevel - 1, 0)]
    /\ UNCHANGED <<score, stored>>

\* failAction: sound, feedback, speech and a shake; no field of the App changes
failAction ==
    /\ UNCHANGED <<score, currentLevel, progress, stored>>

\* bounds on the Outcomes
RECURSIVE SumMedals(_)
SumMedals(G) == IF G = {} THEN 0
                ELSE LET g == CHOOSE x \in G : TRUE IN progress[g].medals + SumMedals(G \ {g})
TotalMedals == SumMedals(GAME_TYPES)
CanSchedule == Len(timeouts) < MaxTimeouts
\* the second in which a completed game is still on screen: the nextLevel
\* closure has completed the record and its showMenu callback is pending
AfterCompletion ==
    /\ screen = "game"
    /\ progress[currentGame].completed
    /\ \E i \in DOMAIN timeouts : timeouts[i].kind = "menu"
CanSucceed ==
    /\ CanSchedule
    /\ \/ currentLevel < LevelCap /\ TotalMedals < MaxMedals
       \/ currentLevel = LevelCap /\ TotalMedals <= MaxMedals /\ AfterCompletion

\* the Challenge of game g is on screen and can receive input
OnScreen(g) == screen = "game" /\ chGame = g

(* ------------------------- menu and game start ------------------------- *)
\* actualStart(type, level)
actualStart(type, level) ==
    /\ currentGame' = type
    /\ score' = 0
    /\ currentLevel' = level
    /\ screen' = "game"
    /\ renderLevel(type, level)

\* a startGame without the check of gameProgress.completed
startGame_noConfirm(type) ==
    /\ screen = "menu"
    /\ ~modalOpen
    /\ actualStart(type, progress[type].level)
    /\ UNCHANGED <<pendingGameType, modalOpen, progress, stored, timeouts>>

\* startGame(type), from a button of the menu grid
startGame(type) ==
    /\ screen = "menu"
    /\ ~modalOpen
    /\ IF progress[type].completed
       THEN /\ pendingGameType' = type
            /\ modalOpen' = TRUE
            /\ UNCHANGED <<session, timer, challenge, screen, engines>>
       ELSE /\ actualStart(type, progress[type].level)
            /\ UNCHANGED <<pendingGameType, modalOpen>>
    /\ UNCHANGED <<progress, stored, timeouts>>

\* closeModal: the dialog is declined (its button, or the back button)
closeModal ==
    /\ modalOpen
    /\ modalOpen' = FALSE
    /\ UNCHANGED <<session, timer, challenge, progress, pendingGameType, stored,
                   timeouts, screen, engines>>

\* a confirmReset that also takes the medals back
confirmReset_clearsMedals ==
    /\ modalOpen
    /\ modalOpen' = FALSE
    /\ IF pendingGameType # NoGame
       THEN /\ progress' = [progress EXCEPT ![pendingGameType] = DefaultRecord]
            /\ stored' = saveProgress(progress')
            /\ actualStart(pendingGameType, 0)
       ELSE UNCHANGED <<progress, stored, session, timer, challenge, screen, engines>>
    /\ UNCHANGED <<pendingGameType, timeouts>>

\* confirmReset: the dialog is confirmed
confirmReset ==
    /\ modalOpen
    /\ modalOpen' = FALSE
    /\ IF pendingGameType # NoGame
       THEN /\ progress' = [progress EXCEPT ![pendingGameType].level = 0,
                                            ![pendingGameType].completed = FALSE]
            /\ stored' = saveProgress(progress')
            /\ actualStart(pendingGameType, 0)
       ELSE UNCHANGED <<progress, stored, session, timer, challenge, screen, engines>>
    /\ UNCHANGED <<pendingGameType, timeouts>>

\* the state change of showMenu: stopTimer, then #game-screen is replaced by
\* #main-menu (at the end of a 0.3 s tween that touches nothing else)
showMenu ==
    /\ stopTimer
    /\ screen' = "menu"
    /\ UNCHANGED <<timerInterval, timeLeft>>

\* the player leaves the game: back button (popstate, Eitaa) or menu button
backToMenu ==
    /\ screen = "game"
    /\ ~modalOpen
    /\ showMenu
    /\ UNCHANGED <<session, challenge, progress, pendingGameType, stored, timeouts,
                   modalOpen, engines>>

(* --------------------------- variant engines --------------------------- *)
\* a checkTranslate whose fail branch schedules nothing
checkTranslate_noRerender(ok) ==
    /\ OnScreen("translate")
    /\ stopTimer
    /\ IF ok
       THEN /\ CanSucceed
            /\ successAction(timeouts)
       ELSE /\ CanSchedule
            /\ failAction
            /\ UNCHANGED timeouts
    /\ UNCHANGED <<currentGame, timerInterval, timeLeft, pendingGameType,
                   screen, modalOpen, chGame, chLevel, engines>>

\* checkTranslate(selected, correct); ok stands for selected === correct
checkTranslate(ok) ==
    /\ OnScreen("translate")
    /\ stopTimer
    /\ IF ok
       THEN /\ CanSucceed
            /\ successAction(timeouts)
       ELSE /\ CanSchedule
            /\ failAction
            /\ timeouts' = setTimeout(timeouts, "render", DELAY_FAIL)
    /\ UNCHANGED <<currentGame, timerInterval, timeLeft, pendingGameType,
                   screen, modalOpen, chGame, chLevel, engines>>

\* checkChoice(selected, correct); ok stands for selected == correct
checkChoice(ok) ==
    /\ OnScreen("animal")
    /\ IF ok
       THEN /\ CanSucceed
            /\ successAction(timeouts)
       ELSE /\ CanSchedule
            /\ failAction
            /\ timeouts' = setTimeout(timeouts, "render", DELAY_FAIL)
    /\ UNCHANGED <<currentGame, timer, pendingGameType,
                   screen, modalOpen, chGame, chLevel, engines>>

\* bound on the Outcomes of the engines below
CanAdvance == CanSchedule /\ currentLevel < LevelCap

\* an updateHangmanUI that reports Succeeded only for a guess without mistake
updateHangmanUI_strict(guessed, m) ==
    IF Letters(hangmanWord) \subseteq guessed /\ m = 0
    THEN /\ CanAdvance
         /\ successAction(timeouts)
    ELSE IF m >= maxMistakes
    THEN /\ CanSchedule
         /\ failAction
         /\ timeouts' = setTimeout(timeouts, "render", DELAY_FAIL)
    ELSE UNCHANGED <<score, currentLevel, progress, stored, timeouts>>

\* updateHangmanUI, after the redraw, with guessedLetters = guessed and
\* mistakes = m: displayWord has no '_' iff every letter of the word is in
\* guessed
updateHangmanUI(guessed, m) ==
    IF Letters(hangmanWord) \subseteq guessed
    THEN /\ CanAdvance
         /\ successAction(timeouts)
    ELSE IF m >= maxMistakes
    THEN /\ CanSchedule
         /\ failAction
         /\ timeouts' = setTimeout(timeouts, "render", DELAY_FAIL)
    ELSE UNCHANGED <<score, currentLevel, progress, stored, timeouts>>

\* a keyboard whose keys stay enabled
used_never(l) == FALSE

\* updateHangmanUI: used = this.guessedLetters.has(l); the key of l is drawn
\* with the attribute disabled iff used, and a disabled button has no click
used(l) == l \in guessedLetters

\* a guessHangman that counts every guess as a mistake
guessHangman_countsAll(letter) ==
    /\ OnScreen("hangman")
    /\ ~used(letter)
    /\ guessedLetters' = guessedLetters \cup {letter}
    /\ mistakes' = mistakes + 1
    /\ hint' = currentLevel % Len(hangmanLibrary)
    /\ updateHangmanUI(guessedLetters', mistakes')
    /\ UNCHANGED <<hangmanWord, currentGame, timer, pendingGameType, screen,
                   modalOpen, chGame, chLevel, guess, sentence, sequence, grammar, choice>>

\* guessHangman(letter), from a key of the keyboard; the keys of guessed
\* letters are disabled
guessHangman(letter) ==
    /\ OnScreen("hangman")
    /\ ~used(letter)
    /\ guessedLetters' = guessedLetters \cup {letter}
    /\ mistakes' = IF letter \in Letters(hangmanWord) THEN mistakes ELSE mistakes + 1
    /\ hint' = currentLevel % Len(hangmanLibrary)
    /\ updateHangmanUI(guessedLetters', mistakes')
    /\ UNCHANGED <<hangmanWord, currentGame, timer, pendingGameType, screen,
                   modalOpen, chGame, chLevel, guess, sentence, sequence, grammar, choice>>

\* a tile that stays enabled after its tap
tappable_always(t) == TRUE

\* handleLetterClick gives the tapped tile the classes opacity-30 and
\* pointer-events-none together with its dataset.usedIdx; undoLetter removes
\* them together: a tile takes a tap iff it carries no usedIdx
tappable(t) == usedIdx[t] = NoIdx

\* handleLetterClick(btn, char) for the tile t.  levelData is read from
\* guessPool with this.currentLevel as it is at the click; #answer-slots has
\* one slot per letter of the answer the Challenge was rendered with, and
\* slots[n].innerText = char throws for n beyond the last slot, before any
\* field is written.
handleLetterClick(t) ==
    LET levelData == guessAnswer(currentLevel)
        slots == Len(guessAnswer(chLevel))
        n == Len(currentGuess)
    IN
    /\ OnScreen("guess")
    /\ t \in DOMAIN letterPool
    /\ tappable(t)
    /\ IF n < Len(levelData) /\ n < slots
       THEN /\ currentGuess' = Append(currentGuess, letterPool[t])
            /\ usedIdx' = [usedIdx EXCEPT ![t] = n]
            /\ IF n + 1 = Len(levelData)
               THEN IF currentGuess' = levelData
                    THEN /\ CanAdvance
                         /\ successAction(timeouts)
                    ELSE /\ CanSchedule
                         /\ failAction
                         /\ timeouts' = setTimeout(timeouts, "render", DELAY_FAIL)
               ELSE UNCHANGED <<score, currentLevel, progress, stored, timeouts>>
       ELSE UNCHANGED <<currentGuess, usedIdx, score, currentLevel, progress,
                        stored, timeouts>>
    /\ UNCHANGED <<letterPool, currentGame, timer, pendingGameType, screen,
                   modalOpen, chGame, chLevel, hangman, sentence, sequence, grammar, choice>>

\* the tile that undoLetter releases: the first button whose letter is char
\* and whose dataset.usedIdx is lastIdx (0: none)
undoTile(char, lastIdx) ==
    LET match == {t \in DOMAIN letterPool :
                     letterPool[t] = char /\ usedIdx[t] = lastIdx}
    IN IF match = {} THEN 0 ELSE CHOOSE t \in match : \A u \in match : t <= u

\* an undoLetter that releases the first tile showing the removed letter
undoLetter_anyTile ==
    LET lastIdx == Len(currentGuess) - 1
        char == currentGuess[Len(currentGuess)]
        match == {t \in DOMAIN letterPool : letterPool[t] = char}
        tile == CHOOSE t \in match : \A u \in match : t <= u
    IN
    /\ OnScreen("guess")
    /\ Len(currentGuess) > 0
    /\ usedIdx' = [usedIdx EXCEPT ![tile] = NoIdx]
    /\ currentGuess' = SubSeq(currentGuess, 1, lastIdx)
    /\ UNCHANGED <<letterPool, session, timer, progress, pendingGameType, stored,
                   timeouts, screen, modalOpen, chGame, chLevel, hangman, sentence, sequence, grammar, choice>>

\* undoLetter, from a slot or from the undo button
undoLetter ==
    LET lastIdx == Len(currentGuess) - 1
        tile == undoTile(currentGuess[Len(currentGuess)], lastIdx)
    IN
    /\ OnScreen("guess")
    /\ Len(currentGuess) > 0
    /\ usedIdx' = IF tile = 0 THEN usedIdx ELSE [usedIdx EXCEPT ![tile] = NoIdx]
    /\ currentGuess' = SubSeq(currentGuess, 1, lastIdx)
    /\ UNCHANGED <<letterPool, session, timer, progress, pendingGameType, stored,
                   timeouts, screen, modalOpen, chGame, chLevel, hangman, sentence, sequence, grammar, choice>>

\* moveWord(btn) for the chip of word w: a chip of the pool is appended to
\* the target, a chip of the target goes back to the pool and its word is
\* filtered out of constructedSentence; the check runs after either move
moveWord(w) ==
    LET Keep(x) == x # w IN
    /\ OnScreen("sentence")
    /\ w \in Letters(targetSentence)
    /\ IF w \in poolChips
       THEN /\ poolChips' = poolChips \ {w}
            /\ constructedSentence' = Append(constructedSentence, w)
       ELSE /\ poolChips' = poolChips \cup {w}
            /\ constructedSentence' = SelectSeq(constructedSentence, Keep)
    /\ IF Len(constructedSentence') = Len(targetSentence)
       THEN IF \A i \in DOMAIN constructedSentence' :
                   constructedSentence'[i] = targetSentence[i]
            THEN /\ CanAdvance
                 /\ successAction(timeouts)
            ELSE /\ CanSchedule
                 /\ failAction
                 /\ timeouts' = setTimeout(timeouts, "render", DELAY_SENTENCE)
       ELSE UNCHANGED <<score, currentLevel, progress, stored, timeouts>>
    /\ UNCHANGED <<targetSentence, currentGame, timer, pendingGameType, screen,
                   modalOpen, chGame, chLevel, hangman, guess, sequence, grammar, choice>>

\* a checkSequenceStatus that compares the values without their positions
checkSequenceStatus_anyOrder(text) ==
    IF \A i \in missingIndices : text[i] # ""
    THEN IF {text[i] : i \in missingIndices} = {fullList[i + 1] : i \in missingIndices}
         THEN /\ CanAdvance
              /\ successAction(timeouts)
         ELSE /\ CanSchedule
              /\ failAction
              /\ timeouts' = setTimeout(timeouts, "render", DELAY_FAIL)
    ELSE UNCHANGED <<score, currentLevel, progress, stored, timeouts>>

\* checkSequenceStatus, with `text` the innerText of the slots
checkSequenceStatus(text) ==
    IF \A i \in missingIndices : text[i] # ""
    THEN IF \A i \in missingIndices : text[i] = fullList[i + 1]
         THEN /\ CanAdvance
              /\ successAction(timeouts)
         ELSE /\ CanSchedule
              /\ failAction
              /\ timeouts' = setTimeout(timeouts, "render", DELAY_FAIL)
    ELSE UNCHANGED <<score, currentLevel, progress, stored, timeouts>>

\* missingIndices.sort((a, b) => a - b): the k-th smallest blanked position
sortedMissing ==
    [k \in 1..Cardinality(missingIndices) |->
        CHOOSE i \in missingIndices : Cardinality({j \in missingIndices : j < i}) = k - 1]

\* correctAnswers = missingIndices.map(i => fullList[i])
correctAnswers == [k \in DOMAIN sortedMissing |-> fullList[sortedMissing[k] + 1]]

\* [...correctAnswers].sort(() => Math.random() - 0.5), the same random
\* comparator as shuffleString: the orders #order-pool can be rendered in
shuffledPools == shuffleString(correctAnswers)

\* #sequence-display: an item of the list, or the text of a slot
sequenceDisplay ==
    [idx \in 0..(Len(fullList) - 1) |->
        IF idx \in missingIndices THEN slotText[idx] ELSE fullList[idx + 1]]

\* the values of the buttons of #order-pool
poolValues == {fullList[i + 1] : i \in missingIndices}

\* a placeInSlot that fills the last empty slot
placeInSlot_lastEmpty(v) ==
    LET empty == {i \in missingIndices : slotText[i] = ""} IN
    /\ screen = "game"
    /\ chGame \in SequenceGames
    /\ v \in poolValues \ hiddenChips
    /\ IF empty # {}
       THEN LET emptySlot == CHOOSE i \in empty : \A j \in empty : i >= j IN
            /\ slotText' = [slotText EXCEPT ![emptySlot] = v]
            /\ hiddenChips' = hiddenChips \cup {v}
            /\ checkSequenceStatus(slotText')
       ELSE UNCHANGED <<slotText, hiddenChips, score, currentLevel, progress,
                        stored, timeouts>>
    /\ UNCHANGED <<fullList, missingIndices, currentGame, timer, pendingGameType,
                   screen, modalOpen, chGame, chLevel, hangman, guess, sentence, grammar, choice>>

\* placeInSlot(btn) for the visible button of value v: the value goes to
\* the first empty slot in document order
placeInSlot(v) ==
    LET empty == {i \in missingIndices : slotText[i] = ""} IN
    /\ screen = "game"
    /\ chGame \in SequenceGames
    /\ v \in poolValues \ hiddenChips
    /\ IF empty # {}
       THEN LET emptySlot == CHOOSE i \in empty : \A j \in empty : i <= j IN
            /\ slotText' = [slotText EXCEPT ![emptySlot] = v]
            /\ hiddenChips' = hiddenChips \cup {v}
            /\ checkSequenceStatus(slotText')
       ELSE UNCHANGED <<slotText, hiddenChips, score, currentLevel, progress,
                        stored, timeouts>>
    /\ UNCHANGED <<fullList, missingIndices, currentGame, timer, pendingGameType,
                   screen, modalOpen, chGame, chLevel, hangman, guess, sentence, grammar, choice>>

\* removeFromSlot(slot) for the slot of position i
removeFromSlot(i) ==
    /\ screen = "game"
    /\ chGame \in SequenceGames
    /\ i \in missingIndices
    /\ slotText[i] # ""
    /\ slotText' = [slotText EXCEPT ![i] = ""]
    /\ hiddenChips' = hiddenChips \ {slotText[i]}
    /\ UNCHANGED <<fullList, missingIndices, session, timer, progress,
                   pendingGameType, stored, timeouts, screen, modalOpen, chGame,
                   chLevel, hangman, guess, sentence, grammar, choice>>

\* this.currentGrammarData of the Challenge on screen
grammarData == grammarPool[currentGrammarData + 1]

\* a checkGrammarMistake whose miss ends the Challenge like the other fail
\* branches
checkGrammarMistake_rerender(idx) ==
    /\ OnScreen("grammar")
    /\ IF grammarStep # 1
       THEN UNCHANGED <<score, currentLevel, progress, stored, timeouts,
                        grammarStep>>
       ELSE IF idx = grammarData.wrongIdx
       THEN /\ grammarStep' = 2
            /\ UNCHANGED <<score, currentLevel, progress, stored, timeouts>>
       ELSE /\ CanSchedule
            /\ failAction
            /\ timeouts' = setTimeout(timeouts, "render", DELAY_FAIL)
            /\ UNCHANGED grammarStep
    /\ UNCHANGED <<currentGrammarData, currentGame, timer, pendingGameType,
                   screen, modalOpen, chGame, chLevel, hangman, guess, sentence,
                   sequence, choice>>

\* checkGrammarMistake(idx), from the button gram-word-idx; updateGrammarUI
\* draws the option buttons iff this.grammarStep is 2
checkGrammarMistake(idx) ==
    /\ OnScreen("grammar")
    /\ IF grammarStep # 1
       THEN UNCHANGED <<score, currentLevel, progress, stored, timeouts,
                        grammarStep>>
       ELSE IF idx = grammarData.wrongIdx
       THEN /\ grammarStep' = 2
            /\ UNCHANGED <<score, currentLevel, progress, stored, timeouts>>
       ELSE /\ failAction
            /\ UNCHANGED <<timeouts, grammarStep>>
    /\ UNCHANGED <<currentGrammarData, currentGame, timer, pendingGameType,
                   screen, modalOpen, chGame, chLevel, hangman, guess, sentence,
                   sequence, choice>>

\* a checkGrammarCorrection without its test of this.grammarStep
checkGrammarCorrection_anyStep(selected) ==
    /\ OnScreen("grammar")
    /\ IF selected = grammarData.correct
       THEN /\ CanAdvance
            /\ successAction(timeouts)
       ELSE /\ CanSchedule
            /\ failAction
            /\ timeouts' = setTimeout(timeouts, "render", DELAY_FAIL)
    /\ UNCHANGED <<grammar, currentGame, timer, pendingGameType, screen,
                   modalOpen, chGame, chLevel, hangman, guess, sentence,
                   sequence, choice>>

\* checkGrammarCorrection(selected), from an option button
checkGrammarCorrection(selected) ==
    /\ OnScreen("grammar")
    /\ IF grammarStep # 2
       THEN UNCHANGED <<score, currentLevel, progress, stored, timeouts>>
       ELSE IF selected = grammarData.correct
       THEN /\ CanAdvance
            /\ successAction(timeouts)
       ELSE /\ CanSchedule
            /\ failAction
            /\ timeouts' = setTimeout(timeouts, "render", DELAY_FAIL)
    /\ UNCHANGED <<grammar, currentGame, timer, pendingGameType, screen,
                   modalOpen, chGame, chLevel, hangman, guess, sentence,
                   sequence, choice>>

(* ------------------------- delayed callbacks --------------------------- *)
\* Timeout i can fire: no timeout that was scheduled before it with the same
\* or a shorter delay is still waiting (timers fire in deadline order).
Due(i) ==
    /\ i \in 1..Len(timeouts)
    /\ \A j \in 1..(i - 1) : timeouts[j].delay > timeouts[i].delay

\* a tick whose expiry branch leaves the interval running
timerTick_noCancel(h) ==
    /\ h \in intervals
    /\ timeLeft' = timeLeft - 1
    /\ IF timeLeft - 1 <= 0
       THEN /\ CanSchedule
            /\ failAction
            /\ timeouts' = setTimeout(timeouts, "render", DELAY_EXPIRY)
            /\ UNCHANGED intervals
       ELSE /\ UNCHANGED <<intervals, score, currentLevel, progress, stored, timeouts>>
    /\ UNCHANGED <<currentGame, timerInterval, pendingGameType,
                   screen, modalOpen, chGame, chLevel, engines>>

\* the setInterval callback of startTimer, for the active handle h
timerTick(h) ==
    /\ h \in intervals
    /\ timeLeft' = timeLeft - 1
    /\ IF timeLeft - 1 <= 0
       THEN /\ CanSchedule
            /\ intervals' = clearInterval(intervals, timerInterval)
            /\ failAction
            /\ timeouts' = setTimeout(timeouts, "render", DELAY_EXPIRY)
       ELSE /\ UNCHANGED <<intervals, score, currentLevel, progress, stored, timeouts>>
    /\ UNCHANGED <<currentGame, timerInterval, pendingGameType,
                   screen, modalOpen, chGame, chLevel, engines>>

\* setTimeout(() => this.renderLevel(), ...) of a Failed outcome
renderTimeout(i) ==
    /\ Due(i)
    /\ timeouts[i].kind = "render"
    /\ timeouts' = RemoveAt(timeouts, i)
    /\ renderLevel(currentGame, currentLevel)
    /\ UNCHANGED <<session, progress, pendingGameType, stored, screen, modalOpen>>

\* the nextLevel closure of successAction
nextLevel(i) ==
    /\ Due(i)
    /\ timeouts[i].kind = "next"
    /\ IF currentLevel >= maxLevels
       THEN /\ progress' = [progress EXCEPT ![currentGame] =
                               [level |-> 0, medals |-> @.medals + 1, completed |-> TRUE]]
            /\ stored' = saveProgress(progress')
            /\ timeouts' = setTimeout(RemoveAt(timeouts, i), "menu", DELAY_MENU)
            /\ UNCHANGED <<timer, challenge, engines>>
       ELSE /\ stored' = saveProgress(progress)
            /\ timeouts' = RemoveAt(timeouts, i)
            /\ renderLevel(currentGame, currentLevel)
            /\ UNCHANGED progress
    /\ UNCHANGED <<session, pendingGameType, screen, modalOpen>>

\* setTimeout(() => this.showMenu(), 1000) of a completed cycle
menuTimeout(i) ==
    /\ Due(i)
    /\ timeouts[i].kind = "menu"
    /\ timeouts' = RemoveAt(timeouts, i)
    /\ showMenu
    /\ UNCHANGED <<session, challenge, progress, pendingGameType, stored, modalOpen,
                   engines>>

(* ------------------------------ observer ------------------------------- *)
\* a new Challenge replaced the content of #game-content
Generated == outcomes' = 0

\* the Challenge on screen reported an Outcome (ok: Succeeded)
Reported(ok) ==
    /\ outcomes' = Min(outcomes + 1, 2)
    /\ awaiting' = IF ok THEN Outcome("Succeeded", currentGame, currentLevel + 1)
                         ELSE Outcome("Failed", chGame, chLevel)
    /\ UNCHANGED feedback

\* how a step shows in the program's own state: successAction scheduled its
\* nextLevel, a fail branch scheduled its renderLevel, the countdown ran out
SucceededStep ==
    /\ Len(timeouts') = Len(timeouts) + 1
    /\ timeouts'[Len(timeouts')].kind = "next"
FailedStep ==
    /\ Len(timeouts') = Len(timeouts) + 1
    /\ timeouts'[Len(timeouts')].kind = "render"
ExpiryStep == timeLeft' = timeLeft - 1 /\ timeLeft' <= 0

\* a delayed callback generates a Challenge: the renderLevel of a Failed
\* outcome, or the renderLevel branch of nextLevel
CallbackGenerates ==
    \E i \in DOMAIN timeouts :
        \/ renderTimeout(i)
        \/ nextLevel(i) /\ currentLevel < maxLevels
\* a step that generates a Challenge: a session start or a delayed callback
GeneratedStep ==
    \/ \E type \in GAME_TYPES : startGame(type) /\ ~progress[type].completed
    \/ confirmReset /\ pendingGameType # NoGame
    \/ CallbackGenerates

(* --------------------------- specifications ---------------------------- *)
\* the program
Next ==
    \/ \E type \in GAME_TYPES : startGame(type) /\ UNCHANGED observer
    \/ closeModal /\ UNCHANGED observer
    \/ confirmReset /\ UNCHANGED observer
    \/ backToMenu /\ UNCHANGED observer
    \/ \E ok \in BOOLEAN : checkTranslate(ok) /\ UNCHANGED observer
    \/ \E ok \in BOOLEAN : checkChoice(ok) /\ UNCHANGED observer
    \/ \E h \in intervals : timerTick(h) /\ UNCHANGED observer
    \/ \E i \in 1..MaxTimeouts : renderTimeout(i) /\ UNCHANGED observer
    \/ \E i \in 1..MaxTimeouts : nextLevel(i) /\ UNCHANGED observer
    \/ \E i \in 1..MaxTimeouts : menuTimeout(i) /\ UNCHANGED observer

Spec == Init /\ [][Next]_vars

\* the program under the observer, which counts the Outcomes of the
\* Challenge on screen and remembers the Outcome whose callback is pending
NextObserved ==
    \/ \E type \in GAME_TYPES :
          /\ startGame(type)
          /\ IF progress[type].completed THEN UNCHANGED outcomes ELSE Generated
          /\ UNCHANGED <<feedback, awaiting>>
    \/ closeModal /\ UNCHANGED observer
    \/ confirmReset /\ Generated /\ UNCHANGED <<feedback, awaiting>>
    \/ backToMenu /\ UNCHANGED observer
    \/ \E ok \in BOOLEAN : checkTranslate(ok) /\ Reported(ok)
    \/ \E ok \in BOOLEAN : checkChoice(ok) /\ Reported(ok)
    \/ \E h \in intervals :
          /\ timerTick(h)
          /\ IF timeLeft - 1 <= 0 THEN Reported(FALSE) ELSE UNCHANGED observer
    \/ \E i \in 1..MaxTimeouts :
          /\ renderTimeout(i)
          /\ Generated
          /\ awaiting' = Settled("Failed")
          /\ UNCHANGED feedback
    \/ \E i \in 1..MaxTimeouts :
          /\ nextLevel(i)
          /\ IF currentLevel >= maxLevels THEN UNCHANGED outcomes ELSE Generated
          /\ awaiting' = Settled("Succeeded")
          /\ UNCHANGED feedback
    \/ \E i \in 1..MaxTimeouts : menuTimeout(i) /\ UNCHANGED observer

SpecObserved == Init /\ [][NextObserved]_vars

\* the delayed callbacks of NextObserved
CallbackObserved ==
    \/ \E i \in 1..MaxTimeouts :
          /\ renderTimeout(i)
          /\ Generated
          /\ awaiting' = Settled("Failed")
          /\ UNCHANGED feedback
    \/ \E i \in 1..MaxTimeouts :
          /\ nextLevel(i)
          /\ IF currentLevel >= maxLevels THEN UNCHANGED outcomes ELSE Generated
          /\ awaiting' = Settled("Succeeded")
          /\ UNCHANGED feedback
    \/ \E i \in 1..MaxTimeouts : menuTimeout(i) /\ UNCHANGED observer

\* the steps of NextObserved for a player who opens translate only: the
\* game with the countdown
NextFair ==
    \/ /\ startGame("translate")
       /\ IF progress.translate.completed THEN UNCHANGED outcomes ELSE Generated
       /\ UNCHANGED <<feedback, awaiting>>
    \/ closeModal /\ UNCHANGED observer
    \/ confirmReset /\ Generated /\ UNCHANGED <<feedback, awaiting>>
    \/ backToMenu /\ UNCHANGED observer
    \/ \E ok \in BOOLEAN : checkTranslate(ok) /\ Reported(ok)
    \/ \E h \in intervals :
          /\ timerTick(h)
          /\ IF timeLeft - 1 <= 0 THEN Reported(FALSE) ELSE UNCHANGED observer
    \/ CallbackObserved

\* the program under the observer, with timers that fire: a setTimeout
\* callback that is due does run.  Nothing is assumed of the player or of
\* the countdown interval.
SpecFair == Init /\ [][NextFair]_vars /\ WF_vars(CallbackObserved)

(* ------------------------- the hangman engine -------------------------- *)
\* a session of game g that startGame opened at level l of its record: the
\* state after the constructor and a button of the menu grid, with the
\* record read from the stored document when l > 0
Session(g, l) ==
    /\ score = 0
    /\ currentLevel = l
    /\ currentGame = g
    /\ timerInterval = NoHandle
    /\ timeLeft = TIME_INIT
    /\ progress = [x \in GAME_TYPES \cup {g} |->
                      IF x = g THEN [DefaultRecord EXCEPT !.level = l]
                               ELSE DefaultRecord]
    /\ pendingGameType = NoGame
    /\ stored = IF l = 0 THEN <<>> ELSE <<progress>>
    /\ timeouts = <<>>
    /\ intervals = {}
    /\ screen = "game"
    /\ modalOpen = FALSE
    /\ chGame = g
    /\ chLevel = l
    /\ data = NoData
    /\ options = <<>>
    /\ rand = NoRand
    /\ currentGrammarData = IF g = "grammar" THEN grammarAt(l) ELSE NoItem
    /\ grammarStep = IF g = "grammar" THEN 1 ELSE NoStep
    /\ outcomes = 0
    /\ feedback = NoFeedback
    /\ awaiting = NoOutcome

\* a hangman session at any level of the cycle
InitHangman ==
    \E l \in 0..(maxLevels - 1) :
        /\ Session("hangman", l)
        /\ hangmanWord = hangmanWordAt(l)
        /\ guessedLetters = {}
        /\ mistakes = 0
        /\ hint = l % Len(hangmanWords)
        /\ currentGuess = <<>>
        /\ letterPool = <<>>
        /\ usedIdx = <<>>
        /\ constructedSentence = <<>>
        /\ targetSentence = <<>>
        /\ poolChips = {}
        /\ fullList = <<>>
        /\ missingIndices = {}
        /\ slotText = <<>>
        /\ hiddenChips = {}

NextHangman ==
    \/ \E letter \in GuessLetters(hangmanWord) : guessHangman(letter) /\ UNCHANGED observer
    \/ \E i \in 1..MaxTimeouts : renderTimeout(i) /\ UNCHANGED observer
    \/ \E i \in 1..MaxTimeouts : nextLevel(i) /\ UNCHANGED observer
    \/ \E i \in 1..MaxTimeouts : menuTimeout(i) /\ UNCHANGED observer

SpecHangman == InitHangman /\ [][NextHangman]_vars

\* a hangman session opened at a level up to MaxHintLevel, past the end of
\* the list of renderHangmanGame
InitHint ==
    \E l \in 0..MaxHintLevel :
        /\ Session("hangman", l)
        /\ hangmanWord = hangmanWordAt(l)
        /\ guessedLetters = {}
        /\ mistakes = 0
        /\ hint = l % Len(hangmanWords)
        /\ currentGuess = <<>>
        /\ letterPool = <<>>
        /\ usedIdx = <<>>
        /\ constructedSentence = <<>>
        /\ targetSentence = <<>>
        /\ poolChips = {}
        /\ fullList = <<>>
        /\ missingIndices = {}
        /\ slotText = <<>>
        /\ hiddenChips = {}

SpecHint == InitHint /\ [][NextHangman]_vars

(* ---------------------- the letter-assembly engine --------------------- *)
\* the target word of the Challenge in #game-content
guessTarget == guessAnswer(chLevel)

\* the places of the buffer whose letter differs from the target
WrongTaps(buffer) ==
    {i \in DOMAIN buffer : i > Len(guessTarget) \/ buffer[i] # guessTarget[i]}

\* the tiles the player of the model taps: available, and within MaxWrongTaps
TapTiles ==
    {t \in DOMAIN letterPool :
        /\ tappable(t)
        /\ Cardinality(WrongTaps(Append(currentGuess, letterPool[t]))) <= MaxWrongTaps}

\* a letter-assembly session opened at level 0; nextLevel leads to the
\* later levels of the cycle
InitGuess ==
    \E extras \in Extras(0) :
        /\ Session("guess", 0)
        /\ letterPool \in shuffleString(guessAnswer(0) \o extras)
        /\ currentGuess = <<>>
        /\ usedIdx = [t \in DOMAIN letterPool |-> NoIdx]
        /\ hangmanWord = <<>>
        /\ guessedLetters = {}
        /\ mistakes = 0
        /\ hint = NoHint
        /\ constructedSentence = <<>>
        /\ targetSentence = <<>>
        /\ poolChips = {}
        /\ fullList = <<>>
        /\ missingIndices = {}
        /\ slotText = <<>>
        /\ hiddenChips = {}

NextGuess ==
    \/ \E t \in TapTiles : handleLetterClick(t) /\ UNCHANGED observer
    \/ undoLetter /\ UNCHANGED observer
    \/ \E i \in 1..MaxTimeouts : renderTimeout(i) /\ UNCHANGED observer
    \/ \E i \in 1..MaxTimeouts : nextLevel(i) /\ UNCHANGED observer
    \/ \E i \in 1..MaxTimeouts : menuTimeout(i) /\ UNCHANGED observer

SpecGuess == InitGuess /\ [][NextGuess]_vars

(* ----------------------- the sentence builder -------------------------- *)
\* a sentence session at any level of the cycle
InitSentence ==
    \E l \in 0..(maxLevels - 1) :
        /\ Session("sentence", l)
        /\ targetSentence = sentenceAt(l)
        /\ constructedSentence = <<>>
        /\ poolChips = Letters(sentenceAt(l))
        /\ hangmanWord = <<>>
        /\ guessedLetters = {}
        /\ mistakes = 0
        /\ hint = NoHint
        /\ currentGuess = <<>>
        /\ letterPool = <<>>
        /\ usedIdx = <<>>
        /\ fullList = <<>>
        /\ missingIndices = {}
        /\ slotText = <<>>
        /\ hiddenChips = {}

NextSentence ==
    \/ \E w \in Letters(targetSentence) : moveWord(w) /\ UNCHANGED observer
    \/ \E i \in 1..MaxTimeouts : renderTimeout(i) /\ UNCHANGED observer
    \/ \E i \in 1..MaxTimeouts : nextLevel(i) /\ UNCHANGED observer
    \/ \E i \in 1..MaxTimeouts : menuTimeout(i) /\ UNCHANGED observer

SpecSentence == InitSentence /\ [][NextSentence]_vars

(* ------------------------- the sequence engine ------------------------- *)
\* a days or months session opened at level 0; nextLevel leads to the
\* later levels of the cycle
InitSequence ==
    \E g \in SequenceGames :
        /\ Session(g, 0)
        /\ fullList = sequenceList(g)
        /\ missingIndices \in MissingChoices(sequenceList(g))
        /\ slotText = [i \in missingIndices |-> ""]
        /\ hiddenChips = {}
        /\ hangmanWord = <<>>
        /\ guessedLetters = {}
        /\ mistakes = 0
        /\ hint = NoHint
        /\ currentGuess = <<>>
        /\ letterPool = <<>>
        /\ usedIdx = <<>>
        /\ constructedSentence = <<>>
        /\ targetSentence = <<>>
        /\ poolChips = {}

NextSequence ==
    \/ \E v \in poolValues : placeInSlot(v) /\ UNCHANGED observer
    \/ \E i \in missingIndices : removeFromSlot(i) /\ UNCHANGED observer
    \/ \E i \in 1..MaxTimeouts : renderTimeout(i) /\ UNCHANGED observer
    \/ \E i \in 1..MaxTimeouts : nextLevel(i) /\ UNCHANGED observer
    \/ \E i \in 1..MaxTimeouts : menuTimeout(i) /\ UNCHANGED observer

SpecSequence == InitSequence /\ [][NextSequence]_vars

(* ------------------------- the grammar engine -------------------------- *)
\* observer: what a call of checkGrammarMistake(idx) emits
MistakeFeedback(idx) ==
    IF grammarStep = 1 /\ idx # grammarData.wrongIdx THEN "fail" ELSE "none"

\* observer: what a call of checkGrammarCorrection(selected) emits
CorrectionFeedback(selected) ==
    IF grammarStep # 2 THEN "none"
    ELSE IF selected = grammarData.correct THEN "success" ELSE "fail"

\* a grammar session at any level of the cycle
InitGrammar ==
    \E l \in 0..(maxLevels - 1) :
        /\ Session("grammar", l)
        /\ hangmanWord = <<>>
        /\ guessedLetters = {}
        /\ mistakes = 0
        /\ hint = NoHint
        /\ currentGuess = <<>>
        /\ letterPool = <<>>
        /\ usedIdx = <<>>
        /\ constructedSentence = <<>>
        /\ targetSentence = <<>>
        /\ poolChips = {}
        /\ fullList = <<>>
        /\ missingIndices = {}
        /\ slotText = <<>>
        /\ hiddenChips = {}

\* the handlers are called for every word button and every option of the
\* entry, in either step; a delayed callback emits no feedback
NextGrammar ==
    \/ /\ OnScreen("grammar")
       /\ \E idx \in 0..(Len(grammarData.words) - 1) :
              /\ checkGrammarMistake(idx)
              /\ feedback' = Call("checkGrammarMistake", ToString(idx),
                                  MistakeFeedback(idx))
              /\ UNCHANGED <<outcomes, awaiting>>
    \/ /\ OnScreen("grammar")
       /\ \E selected \in grammarData.options :
              /\ checkGrammarCorrection(selected)
              /\ feedback' = Call("checkGrammarCorrection", selected,
                                  CorrectionFeedback(selected))
              /\ UNCHANGED <<outcomes, awaiting>>
    \/ \E i \in 1..MaxTimeouts :
          renderTimeout(i) /\ feedback' = NoFeedback /\ UNCHANGED <<outcomes, awaiting>>
    \/ \E i \in 1..MaxTimeouts :
          nextLevel(i) /\ feedback' = NoFeedback /\ UNCHANGED <<outcomes, awaiting>>
    \/ \E i \in 1..MaxTimeouts :
          menuTimeout(i) /\ feedback' = NoFeedback /\ UNCHANGED <<outcomes, awaiting>>

SpecGrammar == InitGrammar /\ [][NextGrammar]_vars

(* ------------------------- the choice renderers ------------------------ *)
\* getVocabData: the number of entries of each library.  The `en` texts of a
\* library are pairwise distinct, and so are the `fa` texts of 'translate';
\* below, an entry stands for its text by its index in the library.
VocabSize == [animals |-> 40, jobs |-> 28, family |-> 25, places |-> 23,
              objects |-> 24, clothes |-> 20, adjectives |-> 20,
              translate |-> 36, sentences |-> 15, grammar |-> 12, hangman |-> 14]

\* the `fa` text of entry i of a library, written as the index of the first
\* entry of the library with that text: the `fa` texts of a library are
\* pairwise distinct, except that family[18] (Nephew) and family[19] (Niece)
\* have the same one
fa(library, i) == IF library = "family" /\ i = 19 THEN 18 ELSE i

\* the library each renderer asks getVocabData for
libraryOf == [translate |-> "translate", animal |-> "animals", jobs |-> "jobs",
              family |-> "family", places |-> "places",
              adjectives |-> "adjectives", objects |-> "objects",
              clothes |-> "clothes", grammar |-> "grammar"]

\* the games rendered by renderCategoryChoiceGame
CategoryGames == {"animal", "jobs", "family", "places", "adjectives",
                  "objects", "clothes"}
\* the games whose distractors are entries of a library
LibraryGames == CategoryGames \cup {"translate"}
NumberGames == {"numToWord", "wordToNum"}
\* the renderers that fill `options` in a while loop
LoopGames == LibraryGames \cup NumberGames
ChoiceGames == LoopGames \cup {"colors"}
\* the games whose item is selected by this.currentLevel
SelectGames == LibraryGames \cup {"colors", "grammar", "hangman", "sentence"}

\* renderColorsGame: the `name` of each entry of `colors`, and the four
\* names that join data.name in the shuffled array
colors == <<"RED", "BLUE", "GREEN", "YELLOW", "PURPLE">>
colorDistractors == <<"ORANGE", "BLACK", "WHITE", "BROWN">>

\* Math.floor(Math.random() * n): a value of 0..n-1; the model draws among
\* the MaxRand - 1 smallest values and the largest one
Draws(n) == {k \in 0..(n - 1) : k < MaxRand - 1 \/ k = n - 1}

\* Math.min(300, 20 + this.currentLevel)
\* a range without the cap at 300
range_uncapped(level) == RANGE_BASE + level

\* const range = Math.min(300, 20 + this.currentLevel)
range(level) == Min(RANGE_MAX, RANGE_BASE + level)

ones == <<"ZERO", "ONE", "TWO", "THREE", "FOUR", "FIVE", "SIX", "SEVEN",
          "EIGHT", "NINE", "TEN", "ELEVEN", "TWELVE", "THIRTEEN", "FOURTEEN",
          "FIFTEEN", "SIXTEEN", "SEVENTEEN", "EIGHTEEN", "NINETEEN">>
tens == <<"", "", "TWENTY", "THIRTY", "FORTY", "FIFTY", "SIXTY", "SEVENTY",
          "EIGHTY", "NINETY">>

\* numberToWords: a string, built with the concatenations of the source
RECURSIVE numberToWords(_)
numberToWords_noRemainderTest(n) ==
    IF n < 20 THEN ones[n + 1]
    ELSE IF n < 100
    THEN tens[(n \div 10) + 1]
         \o (IF n % 10 # 0 THEN " " \o ones[(n % 10) + 1] ELSE "")
    ELSE IF n < 1000
    THEN ones[(n \div 100) + 1] \o " HUNDRED"
         \o " " \o numberToWords(n % 100)
    ELSE ToString(n)

numberToWords(n) ==
    IF n < 20 THEN ones[n + 1]
    ELSE IF n < 100
    THEN tens[(n \div 10) + 1]
         \o (IF n % 10 # 0 THEN " " \o ones[(n % 10) + 1] ELSE "")
    ELSE IF n < 1000
    THEN ones[(n \div 100) + 1] \o " HUNDRED"
         \o (IF n % 100 # 0 THEN " " \o numberToWords(n % 100) ELSE "")
    ELSE ToString(n)

\* [array[i], array[j]] = [array[j], array[i]], for 0-based i and j
swap(array, i, j) ==
    [array EXCEPT ![i + 1] = array[j + 1], ![j + 1] = array[i + 1]]

\* the loop of shuffleArray from index i down to 1, js[i] being the value
\* of Math.floor(Math.random() * (i + 1)) in the iteration of index i
RECURSIVE shuffleFrom(_, _, _)
shuffleFrom(array, i, js) ==
    IF i > 0 THEN shuffleFrom(swap(array, i, js[i]), i - 1, js) ELSE array

shuffleArray(array, js) == shuffleFrom(array, Len(array) - 1, js)

\* the random values of one shuffleArray call on an array of n elements
Shuffles(n) ==
    {js \in [1..(n - 1) -> 0..(n - 1)] : \A i \in 1..(n - 1) : js[i] \in Draws(i + 1)}

\* the text of the correct option of game g for the selected item d:
\* word.fa, data.en, targetWord, val, data.name
answer(g, d) ==
    IF g = "numToWord" THEN numberToWords(d.idx)
    ELSE IF g = "colors" THEN colors[d.idx + 1]
    ELSE d.idx

\* the candidate option of game g for the random value r: library[r].fa,
\* library[r].en, numberToWords(rand), rand
candidate(g, r) == IF g = "numToWord" THEN numberToWords(r) ELSE r

\* the number of values the loop of game g draws from at level l:
\* library.length, range + 10
drawRange(g, l) ==
    IF g \in NumberGames THEN range(l) + RANGE_EXTRA ELSE VocabSize[libraryOf[g]]

\* the renderers of the loop games up to `let options = [...]`: the item of
\* the level (a random val below range in the number games) and the array
\* holding its text; renderTranslateGame starts the countdown first
selectItem ==
    /\ currentGame \in LoopGames
    /\ chGame = NoGame
    /\ data = NoData
    /\ \E d \in IF currentGame \in NumberGames
                THEN {[src |-> "number", idx |-> val] : val \in Draws(range(currentLevel))}
                ELSE {[src |-> libraryOf[currentGame],
                       idx |-> currentLevel % VocabSize[libraryOf[currentGame]]]} :
           /\ data' = d
           /\ options' = <<answer(currentGame, d)>>
    /\ IF currentGame = "translate"
       THEN startTimer(timeLimit(currentLevel))
       ELSE UNCHANGED timer
    /\ UNCHANGED <<session, progress, pendingGameType, stored, timeouts, screen,
                   modalOpen, challenge, hangman, grammar, guess, sentence, sequence,
                   rand>>

\* one iteration of while(options.length < 4) with random value r: the
\* candidate joins the array unless the array includes it already
drawOption_noCheck(r) ==
    /\ currentGame \in LoopGames
    /\ data # NoData
    /\ Len(options) < OPTIONS
    /\ rand' = r
    /\ options' = Append(options, candidate(currentGame, r))
    /\ UNCHANGED <<session, timer, progress, pendingGameType, stored, timeouts,
                   screen, modalOpen, challenge, hangman, grammar, guess, sentence,
                   sequence, data>>

drawOption(r) ==
    /\ currentGame \in LoopGames
    /\ data # NoData
    /\ Len(options) < OPTIONS
    /\ rand' = r
    /\ options' = IF candidate(currentGame, r) \in Letters(options)
                  THEN options
                  ELSE Append(options, candidate(currentGame, r))
    /\ UNCHANGED <<session, timer, progress, pendingGameType, stored, timeouts,
                   screen, modalOpen, challenge, hangman, grammar, guess, sentence,
                   sequence, data>>

\* the renderers of the loop games after the loop: shuffleArray(options)
\* and the buttons of the options in #game-content
showOptions ==
    /\ currentGame \in LoopGames
    /\ chGame = NoGame
    /\ Len(options) = OPTIONS
    /\ \E js \in Shuffles(OPTIONS) : options' = shuffleArray(options, js)
    /\ chGame' = currentGame
    /\ chLevel' = currentLevel
    /\ UNCHANGED <<session, timer, progress, pendingGameType, stored, timeouts,
                   screen, modalOpen, hangman, grammar, guess, sentence, sequence,
                   data, rand>>

\* renderColorsGame: four of the five shuffled names, data.name put first
\* when the slice dropped it, shuffled again
renderColorsGame ==
    /\ currentGame = "colors"
    /\ chGame = NoGame
    /\ \E js5 \in Shuffles(Len(colors)) : \E js4 \in Shuffles(OPTIONS) :
           LET name == colors[(currentLevel % Len(colors)) + 1]
               slice == SubSeq(shuffleArray(<<name>> \o colorDistractors, js5),
                               1, OPTIONS)
               kept == IF name \in Letters(slice)
                       THEN slice
                       ELSE [slice EXCEPT ![1] = name]
           IN  options' = shuffleArray(kept, js4)
    /\ data' = [src |-> "colors", idx |-> currentLevel % Len(colors)]
    /\ chGame' = currentGame
    /\ chLevel' = currentLevel
    /\ UNCHANGED <<session, timer, progress, pendingGameType, stored, timeouts,
                   screen, modalOpen, hangman, grammar, guess, sentence, sequence, rand>>

\* renderGrammarGame: this.currentGrammarData, the `data` of updateGrammarUI
renderGrammarGame ==
    /\ currentGame = "grammar"
    /\ chGame = NoGame
    /\ data' = [src |-> "grammar", idx |-> currentLevel % VocabSize.grammar]
    /\ currentGrammarData' = grammarAt(currentLevel)
    /\ grammarStep' = 1
    /\ chGame' = currentGame
    /\ chLevel' = currentLevel
    /\ UNCHANGED <<session, timer, progress, pendingGameType, stored, timeouts,
                   screen, modalOpen, hangman, guess, sentence, sequence,
                   options, rand>>

\* renderLevel of a game whose renderer keeps its item in a field of the
\* App: renderHangmanGame, renderSentenceGame
renderEngine ==
    /\ currentGame \in {"hangman", "sentence", "guess"}
    /\ chGame = NoGame
    /\ renderLevel(currentGame, currentLevel)
    /\ UNCHANGED <<session, progress, pendingGameType, stored, timeouts, screen,
                   modalOpen>>

\* startGame(g) up to its renderLevel call, for a record of g at level l
Started(g, l) ==
    /\ score = 0
    /\ currentLevel = l
    /\ currentGame = g
    /\ timerInterval = NoHandle
    /\ timeLeft = TIME_INIT
    /\ progress = [x \in GAME_TYPES \cup {g} |->
                      IF x = g THEN [DefaultRecord EXCEPT !.level = l]
                               ELSE DefaultRecord]
    /\ pendingGameType = NoGame
    /\ stored = IF l = 0 THEN <<>> ELSE <<progress>>
    /\ timeouts = <<>>
    /\ intervals = {}
    /\ screen = "game"
    /\ modalOpen = FALSE
    /\ chGame = NoGame
    /\ chLevel = 0
    /\ hangmanWord = <<>>
    /\ guessedLetters = {}
    /\ mistakes = 0
    /\ hint = NoHint
    /\ currentGuess = <<>>
    /\ letterPool = <<>>
    /\ usedIdx = <<>>
    /\ constructedSentence = <<>>
    /\ targetSentence = <<>>
    /\ poolChips = {}
    /\ fullList = <<>>
    /\ missingIndices = {}
    /\ slotText = <<>>
    /\ hiddenChips = {}
    /\ data = NoData
    /\ options = <<>>
    /\ rand = NoRand
    /\ currentGrammarData = NoItem
    /\ grammarStep = NoStep
    /\ outcomes = 0
    /\ feedback = NoFeedback
    /\ awaiting = NoOutcome

\* a choice or selection game about to render any level up to MaxGenLevel
InitGenerate ==
    \E g \in ChoiceGames \cup SelectGames : \E l \in 0..MaxGenLevel : Started(g, l)

NextGenerate ==
    \/ selectItem /\ UNCHANGED observer
    \/ /\ currentGame \in LoopGames
       /\ \E r \in Draws(drawRange(currentGame, currentLevel)) :
              drawOption(r) /\ UNCHANGED observer
    \/ showOptions /\ UNCHANGED observer
    \/ renderColorsGame /\ UNCHANGED observer
    \/ renderGrammarGame /\ UNCHANGED observer
    \/ renderEngine /\ UNCHANGED observer

SpecGenerate == InitGenerate /\ [][NextGenerate]_vars

\* a category game about to render any level up to MaxGenLevel
InitCategory == \E g \in CategoryGames : \E l \in 0..MaxGenLevel : Started(g, l)

\* the random values of the loop of renderCategoryChoiceGame: those of
\* Draws and the MaxNear entries that follow the selected one
NearDraws(n, idx) == Draws(n) \cup {(idx + k) % n : k \in 1..MaxNear}

NextCategory ==
    \/ selectItem /\ UNCHANGED observer
    \/ /\ data # NoData
       /\ \E r \in NearDraws(drawRange(currentGame, currentLevel), data.idx) :
              drawOption(r) /\ UNCHANGED observer
    \/ showOptions /\ UNCHANGED observer

SpecCategory == InitCategory /\ [][NextCategory]_vars

\* the first level whose range is the cap
CapLevel == RANGE_MAX - RANGE_BASE
\* the levels of the number games: the first ones and those around CapLevel
NumberLevels == (0..MaxGenLevel) \cup ((CapLevel - 1)..(CapLevel + MaxPastCap))

\* a number game about to render one of the NumberLevels
InitNumbers == \E g \in NumberGames : \E l \in NumberLevels : Started(g, l)

NextNumbers ==
    \/ selectItem /\ UNCHANGED observer
    \/ \E r \in Draws(drawRange(currentGame, currentLevel)) :
           drawOption(r) /\ UNCHANGED observer
    \/ showOptions /\ UNCHANGED observer

SpecNumbers == InitNumbers /\ [][NextNumbers]_vars

\* a letter-assembly session about to render any level up to MaxGenLevel
InitPool == \E l \in 0..MaxGenLevel : Started("guess", l)

SpecPool == InitPool /\ [][renderEngine /\ UNCHANGED observer]_vars

\* a loop game about to render a level of the completion cycle
InitLoop ==
    \E g \in LoopGames : \E l \in 0..(maxLevels - 1) : Started(g, l)

NextLoop ==
    \/ selectItem /\ UNCHANGED observer
    \/ \E r \in Draws(drawRange(currentGame, currentLevel)) :
           drawOption(r) /\ UNCHANGED observer
    \/ showOptions /\ UNCHANGED observer

\* the renderer runs on: a statement that can run does run.  Nothing is
\* assumed of the random source.
SpecLoop == InitLoop /\ [][NextLoop]_vars /\ WF_vars(NextLoop)

(* ----------------------------- page load -------------------------------- *)
\* the records of the stored maps of the model
DocRecords ==
    {DefaultRecord,
     [level |-> maxLevels - 1, medals |-> MaxMedals, completed |-> TRUE]}

\* localStorage['learnita_v3_progress']: nothing, a text that is not the
\* text of a map, or the text of a map with a record for some game types
Documents ==
    {<<>>, <<Unparsable>>, <<JsonNull>>, <<JsonNumber>>}
    \cup UNION {{<<m>> : m \in [S -> DocRecords]} : S \in SUBSET GAME_TYPES}

\* updateMenuUI throws on `this.progress[type]` when this.progress is null
\* (a number has no such property and takes the `||` default)
updateMenuUIThrows(p) == p = JsonNull

\* localStorage is written from outside this page: another tab or version
\* of the application, the browser's tools
storageChanged(doc) ==
    /\ stored' = doc
    /\ UNCHANGED <<session, timer, progress, pendingGameType, timeouts, screen,
                   modalOpen, challenge, engines>>

\* the page is loaded: new App().  init() is async and calls updateMenuUI
\* first: when that throws, init ends there, finishSplash is never
\* scheduled and the splash screen stays.
reload ==
    /\ score' = 0
    /\ currentLevel' = 0
    /\ currentGame' = NoGame
    /\ timerInterval' = NoHandle
    /\ timeLeft' = TIME_INIT
    /\ progress' = loadProgress(stored)
    /\ pendingGameType' = NoGame
    /\ timeouts' = <<>>
    /\ intervals' = {}
    /\ screen' = IF updateMenuUIThrows(progress') THEN "splash" ELSE "menu"
    /\ modalOpen' = FALSE
    /\ chGame' = NoGame
    /\ chLevel' = 0
    /\ hangmanWord' = <<>>
    /\ guessedLetters' = {}
    /\ mistakes' = 0
    /\ hint' = NoHint
    /\ currentGuess' = <<>>
    /\ letterPool' = <<>>
    /\ usedIdx' = <<>>
    /\ constructedSentence' = <<>>
    /\ targetSentence' = <<>>
    /\ poolChips' = {}
    /\ fullList' = <<>>
    /\ missingIndices' = {}
    /\ slotText' = <<>>
    /\ hiddenChips' = {}
    /\ data' = NoData
    /\ options' = <<>>
    /\ rand' = NoRand
    /\ currentGrammarData' = NoItem
    /\ grammarStep' = NoStep
    /\ UNCHANGED stored

NextLoad ==
    \/ \E doc \in Documents : storageChanged(doc) /\ UNCHANGED observer
    \/ reload /\ UNCHANGED observer

SpecLoad == Init /\ [][NextLoad]_vars

(* ------------------------- the number conversion ----------------------- *)
\* the call numberToWords(n): `data` holds the argument and `options` the
\* returned string, as in renderNumToWordGame up to `let options`
convert(n) ==
    /\ currentGame = "numToWord"
    /\ data' = [src |-> "number", idx |-> n]
    /\ options' = <<numberToWords(n)>>
    /\ UNCHANGED <<session, timer, progress, pendingGameType, stored, timeouts,
                   screen, modalOpen, challenge, hangman, grammar, guess, sentence,
                   sequence, rand>>

InitWords == Started("numToWord", 0)

NextWords == \E n \in 0..MaxNumber : convert(n) /\ UNCHANGED observer

SpecWords == InitWords /\ [][NextWords]_vars

(* ------------------------------ claims --------------------------------- *)
\* C1: every Succeeded outcome adds exactly 10 to the score and, when the new
\* level is below maxLevels, exactly 1 to the level of the current game's
\* record; the nextLevel callback of that outcome then generates the
\* Challenge of the same game at the new level.
C1_SuccessAdvances ==
    [][/\ SucceededStep =>
            /\ score' = score + SCORE_INC
            /\ currentLevel + 1 < maxLevels =>
                  progress'[currentGame].level = progress[currentGame].level + 1
       /\ (/\ \E i \in DOMAIN timeouts : nextLevel(i)
           /\ awaiting.outcome = "Succeeded"
           /\ awaiting.level < maxLevels) =>
            /\ chGame' = awaiting.game
            /\ chLevel' = awaiting.level]_vars

\* C2: when the Succeeded outcome that takes game g to maxLevels is settled
\* by its nextLevel callback, the record of g becomes completed with level 0
\* and one more medal, whatever menu navigation and game starts happened in
\* between.
C2_CompletionAwardsMedal ==
    [][(/\ \E i \in DOMAIN timeouts : nextLevel(i)
        /\ awaiting.outcome = "Succeeded"
        /\ awaiting.level = maxLevels) =>
            progress'[awaiting.game] =
                [level |-> 0,
                 medals |-> progress[awaiting.game].medals + 1,
                 completed |-> TRUE]]_vars

\* C3: a step that reports a Failed outcome (wrong choice, countdown expiry)
\* leaves the score, the session level, every ProgressRecord and the
\* persisted document unchanged.
C3_FailChangesNothing ==
    [][(FailedStep \/ ExpiryStep) =>
            UNCHANGED <<score, currentLevel, progress, stored>>]_vars

\* the re-render of a Failed outcome is pending in a session that had advanced
C3_Witness ==
    /\ Len(timeouts) > 0
    /\ timeouts[Len(timeouts)].kind = "render"
    /\ currentGame # NoGame
    /\ score > 0
    /\ progress[currentGame].level > 0

\* C4: after a Failed outcome at level L of game g (the only Outcome of its
\* Challenge), the Challenge that a delayed callback generates next is the
\* Challenge of g at level L.
C4_FailRetriesSameLevel ==
    [][(/\ awaiting.outcome = "Failed"
        /\ outcomes <= 1
        /\ \E i \in DOMAIN timeouts :
              \/ renderTimeout(i)
              \/ nextLevel(i) /\ currentLevel < maxLevels) =>
            /\ chGame' = awaiting.game
            /\ chLevel' = awaiting.level]_vars

\* C5: a Challenge yields at most one Outcome: input on a Challenge that has
\* reached Succeeded or Failed produces no second Outcome.
C5_OneOutcomePerChallenge == outcomes <= 1

\* C6: in every state in which an event can be handled, the persisted
\* document equals the in-memory progress map.
C6_PersistedEqualsMemory == loadProgress(stored) = progress

\* C7: the dialog opens only for a completed game and opening it changes
\* nothing else; a session is started from the menu grid only for a game
\* whose record is not completed; declining the dialog changes neither the
\* records, the persisted document, the session, the Challenge, the
\* countdown nor the pending callbacks.
C7_CompletedNeedsConfirmation ==
    [][/\ (~modalOpen /\ modalOpen') =>
            /\ progress[pendingGameType'].completed
            /\ UNCHANGED <<session, progress, stored, timer, challenge, screen,
                           timeouts>>
       /\ (~modalOpen /\ screen = "menu" /\ screen' = "game") =>
            ~progress[currentGame'].completed
       /\ (modalOpen /\ ~modalOpen' /\ screen' = "menu") =>
            UNCHANGED <<session, progress, stored, timer, challenge, screen,
                        timeouts, pendingGameType>>]_vars

\* the dialog of a game completed once was opened and declined
C7_Witness ==
    /\ pendingGameType # NoGame
    /\ progress[pendingGameType].completed
    /\ progress[pendingGameType].medals = 1
    /\ screen = "menu"
    /\ ~modalOpen

\* C8: whenever a countdown is active, the current game is translate and the
\* translate Challenge it was started for has produced no Outcome.
C8_CountdownOnlyForActiveTranslate ==
    intervals # {} =>
        /\ currentGame = "translate"
        /\ chGame = "translate"
        /\ outcomes = 0

\* C9: while the menu is shown no countdown is active.
C9_NoCountdownAtMenu == screen = "menu" => intervals = {}

\* C10: at most one countdown is active in every state, and none is active
\* right after a terminal outcome of a translate Challenge (a selection or
\* an expiry).
C10_OneCountdown ==
    /\ [](Cardinality(intervals) <= 1)
    /\ [][(((SucceededStep \/ FailedStep) /\ chGame = "translate") \/ ExpiryStep) =>
            intervals' = {}]_vars

\* a countdown ran down and its expiry, which cancelled it, awaits its re-render
C10_Witness ==
    /\ timerInterval # NoHandle
    /\ timeLeft = 0
    /\ intervals = {}
    /\ Len(timeouts) > 0
    /\ timeouts[Len(timeouts)] = [kind |-> "render", delay |-> DELAY_EXPIRY]

\* C11: a translate Challenge is generated with a countdown of
\* max(3, 10 - floor(L / 5)) seconds (10 at level 0); every tick takes 1 off
\* the countdown; the tick that takes the countdown of the translate
\* Challenge on screen to 0 cancels the countdown, schedules exactly one
\* re-render and changes neither the score nor any ProgressRecord; while
\* that Challenge is still the one on screen and nothing was scheduled
\* after its expiry (no input was given), the Challenge that a delayed
\* callback generates next is translate at the same level L.
C11_IdleCountdownFailsOnce ==
    [][/\ (currentGame' = "translate" /\ GeneratedStep) =>
            /\ intervals' = {timerInterval'}
            /\ timeLeft' >= TIME_MIN
            /\ timeLeft' = TIME_BASE - (chLevel' \div TIME_STEP) \/ timeLeft' = TIME_MIN
            /\ chLevel' = 0 => timeLeft' = 10
       /\ (timeLeft' # timeLeft /\ \E h \in intervals : timerTick(h)) =>
            timeLeft' = timeLeft - 1
       /\ (ExpiryStep /\ chGame = "translate") =>
            /\ timeouts' = Append(timeouts, [kind |-> "render", delay |-> 1000])
            /\ intervals' = {}
            /\ UNCHANGED <<score, currentLevel, progress, stored>>
       /\ (/\ chGame = "translate"
           /\ timeLeft = 0
           /\ CallbackGenerates
           /\ timeouts[Len(timeouts)] = [kind |-> "render", delay |-> 1000]) =>
            /\ chGame' = "translate"
            /\ chLevel' = chLevel]_vars

\* the countdown of a translate Challenge of level 1 ran out and its
\* re-render is the only pending callback
C11_Witness ==
    /\ chGame = "translate"
    /\ chLevel = 1
    /\ timeLeft = 0
    /\ intervals = {}
    /\ screen = "game"
    /\ timeouts = <<[kind |-> "render", delay |-> DELAY_EXPIRY]>>

\* the letters guessed so far that do not occur in the target word
AbsentGuessed(guessed) == guessed \ Letters(hangmanWord)
\* a step of guessHangman: one more guessed letter on the same Challenge
GuessStep ==
    \E letter \in GuessLetters(hangmanWord) \ guessedLetters :
        guessedLetters' = guessedLetters \cup {letter}

\* C12: a hangman guess reports Succeeded when it is the guess after which
\* every distinct letter of the target word is guessed and fewer than 6
\* guessed letters are absent from the word, and reports no Succeeded while
\* a letter of the word is unguessed; which guesses count as mistakes
\* depends on the set of guessed letters only, not on their order.
C12_HangmanSucceeds ==
    /\ [](mistakes = Cardinality(AbsentGuessed(guessedLetters)))
    /\ [][GuessStep =>
            /\ (/\ Letters(hangmanWord) \subseteq guessedLetters'
                /\ Cardinality(AbsentGuessed(guessedLetters')) < 6) => SucceededStep
            /\ ~(Letters(hangmanWord) \subseteq guessedLetters') => ~SucceededStep]_vars

\* PYTHON was completed after 5 absent letters and its nextLevel is pending
C12_Witness ==
    /\ hangmanWord = hangmanWords[2]
    /\ Letters(hangmanWord) \subseteq guessedLetters
    /\ mistakes = 5
    /\ score = 10
    /\ timeouts = <<[kind |-> "next", delay |-> DELAY_NEXT]>>

\* C13: a hangman guess reports Failed when it is the 6th guessed letter
\* absent from the target word and the word is not covered, and no guess
\* reports Failed while 5 or fewer guessed letters are absent from the word.
C13_HangmanFailsAtSixth ==
    [][GuessStep =>
        /\ (/\ Cardinality(AbsentGuessed(guessedLetters)) = 5
            /\ Cardinality(AbsentGuessed(guessedLetters')) = 6
            /\ ~(Letters(hangmanWord) \subseteq guessedLetters')) => FailedStep
        /\ FailedStep => Cardinality(AbsentGuessed(guessedLetters')) >= 6]_vars

\* the 6th absent letter was guessed on a word with 2 letters still hidden
\* and the re-render of the failure is pending
C13_Witness ==
    /\ hangmanWord = hangmanWords[1]
    /\ Cardinality(AbsentGuessed(guessedLetters)) = 6
    /\ Cardinality(Letters(hangmanWord) \ guessedLetters) = 2
    /\ timeouts = <<[kind |-> "render", delay |-> DELAY_FAIL]>>

\* a step of handleLetterClick that appends a letter to the buffer
TapStep == Len(currentGuess') = Len(currentGuess) + 1
\* a step of undoLetter: the buffer loses a letter and no callback ran
UndoStep == Len(currentGuess') = Len(currentGuess) - 1 /\ timeouts' = timeouts

\* C14: the buffer never grows beyond the length of the target word; a tap
\* that leaves the buffer shorter than the target reports no Outcome; a tap
\* that brings the buffer to the length of the target reports Succeeded
\* when the buffer equals the target and Failed otherwise.
C14_LetterAssembly ==
    /\ [](chGame = "guess" => Len(currentGuess) <= Len(guessTarget))
    /\ [][TapStep =>
            IF Len(currentGuess') < Len(guessTarget)
            THEN ~SucceededStep /\ ~FailedStep
            ELSE IF currentGuess' = guessTarget
                 THEN SucceededStep
                 ELSE FailedStep]_vars

\* the tiles in use are exactly the tiles that gave the letters of the buffer
TilesMatchBuffer ==
    /\ \A i \in DOMAIN currentGuess :
          \E t \in DOMAIN letterPool :
              /\ usedIdx[t] = i - 1
              /\ letterPool[t] = currentGuess[i]
              /\ \A u \in DOMAIN letterPool : usedIdx[u] = i - 1 => u = t
    /\ \A t \in DOMAIN letterPool : usedIdx[t] < Len(currentGuess)

\* C15: every undo removes the last letter of the buffer and makes the tile
\* that gave it available again, and nothing else; the tiles in use are
\* always exactly those of the letters in the buffer, so k taps followed by
\* k undos leave the buffer empty and every tile available.
C15_UndoRestores ==
    /\ [](chGame = "guess" => TilesMatchBuffer)
    /\ [](chGame = "guess" /\ currentGuess = <<>> =>
              \A t \in DOMAIN letterPool : usedIdx[t] = NoIdx)
    /\ [][UndoStep =>
            /\ currentGuess' = SubSeq(currentGuess, 1, Len(currentGuess) - 1)
            /\ \A t \in DOMAIN letterPool :
                  usedIdx'[t] = IF usedIdx[t] = Len(currentGuess) - 1
                                THEN NoIdx ELSE usedIdx[t]
            /\ UNCHANGED <<letterPool, session, progress, stored>>]_vars

\* a full wrong guess was undone letter by letter before its re-render
C15_Witness ==
    /\ chGame = "guess"
    /\ currentGuess = <<>>
    /\ \A t \in DOMAIN letterPool : usedIdx[t] = NoIdx
    /\ timeouts = <<[kind |-> "render", delay |-> DELAY_FAIL]>>
    /\ screen = "game"

\* a step of moveWord: a chip changes sides on the same Challenge
MoveStep ==
    /\ targetSentence' = targetSentence
    /\ poolChips' # poolChips

\* C16: a move that leaves the placed list shorter than the target reports
\* no Outcome; a move that brings it to the length of the target reports
\* Succeeded when the list equals the target position by position and
\* Failed otherwise; and a list of the target's length that is in the
\* wrong order is terminal: no move changes it before the Challenge is
\* generated again.
C16_SentenceEvaluation ==
    [][/\ MoveStep =>
            IF Len(constructedSentence') < Len(targetSentence)
            THEN ~SucceededStep /\ ~FailedStep
            ELSE IF constructedSentence' = targetSentence
                 THEN SucceededStep
                 ELSE FailedStep
       /\ (/\ chGame = "sentence"
           /\ Len(constructedSentence) = Len(targetSentence)
           /\ constructedSentence # targetSentence) => ~MoveStep]_vars

\* a step of placeInSlot or removeFromSlot: the text of a slot changes on
\* the same Challenge
SlotStep ==
    /\ missingIndices' = missingIndices
    /\ fullList' = fullList
    /\ hiddenChips' # hiddenChips

\* the slots that do not hold the value of the list at their position
Misplaced(text) == {i \in DOMAIN text : text[i] # fullList[i + 1]}

\* C17: a place or remove input that leaves one of the 4 slots empty
\* reports no Outcome; the input that fills the last empty slot reports
\* Succeeded when every slot holds the value of the list at its position
\* and Failed otherwise, in particular when two values are swapped,
\* whatever inputs came before.
C17_SequenceCompletion ==
    /\ [](chGame \in SequenceGames => Cardinality(missingIndices) = 4)
    /\ [][SlotStep =>
            IF \E i \in missingIndices : slotText'[i] = ""
            THEN ~SucceededStep /\ ~FailedStep
            ELSE IF Misplaced(slotText') = {}
                 THEN SucceededStep
                 ELSE FailedStep /\ ~SucceededStep]_vars

\* the 4 slots are filled with exactly two values swapped and the re-render
\* of the failure is pending
C17_Witness ==
    /\ chGame \in SequenceGames
    /\ \A i \in missingIndices : slotText[i] # ""
    /\ Cardinality(Misplaced(slotText)) = 2
    /\ timeouts = <<[kind |-> "render", delay |-> DELAY_FAIL]>>

\* C18: the Challenge of every choice game (translate, the category games,
\* colors, numToWord, wordToNum), at every level, shows exactly 4 options
\* that are pairwise distinct, and exactly one of them is the correct
\* answer: the other 3 are distractors that differ from it.
C18_FourDistinctOptions ==
    chGame \in ChoiceGames =>
        /\ Len(options) = 4
        /\ \A i, j \in DOMAIN options : options[i] = options[j] => i = j
        /\ Cardinality({i \in DOMAIN options :
                            options[i] = answer(chGame, data)}) = 1

\* a numToWord Challenge whose target has two words and was shuffled to the
\* last place, behind the distractor ZERO
C18_Witness ==
    /\ chGame = "numToWord"
    /\ data.idx > 20
    /\ options[4] = numberToWords(data.idx)
    /\ options[1] = "ZERO"

\* C19: the Challenge of every corpus-driven game at level l shows the item
\* of the game's corpus category at index l mod (length of the category):
\* the library entry for translate, the category games and grammar, the
\* sentence of the sentences library, and for hangman the word of the
\* 14-entry hangman library.
C19_ItemOfLevel ==
    /\ chGame \in LibraryGames \cup {"grammar"} =>
           data = [src |-> libraryOf[chGame],
                   idx |-> chLevel % VocabSize[libraryOf[chGame]]]
    /\ chGame = "sentence" =>
           targetSentence = sentences[(chLevel % VocabSize.sentences) + 1]
    /\ chGame = "hangman" =>
           hangmanWord = hangmanLibrary[(chLevel % VocabSize.hangman) + 1]

\* C20: distractor generation terminates whatever the random source
\* returns: once the renderer of a choice game has started, its loop ends
\* and the Challenge with its options is shown.
C20_GenerationTerminates ==
    (currentGame \in LoopGames) ~> (chGame = currentGame)

\* C21: for every n of 0..999 numberToWords(n) is the reference English
\* name of n (the name of 0..19; the decade of 20..90 and the unit, if any;
\* the hundreds digit, HUNDRED and the name of the remainder, if any; words
\* separated by one space), with the five examples of the specification;
\* no two numbers of 0..999 have the same name; and for n >= 1000 the
\* result is the decimal digit string of n.
C21_NumberToWords ==
    LET units == <<"ONE", "TWO", "THREE", "FOUR", "FIVE", "SIX", "SEVEN",
                   "EIGHT", "NINE">>
        teens == <<"TEN", "ELEVEN", "TWELVE", "THIRTEEN", "FOURTEEN",
                   "FIFTEEN", "SIXTEEN", "SEVENTEEN", "EIGHTEEN", "NINETEEN">>
        decades == <<"TWENTY", "THIRTY", "FORTY", "FIFTY", "SIXTY", "SEVENTY",
                     "EIGHTY", "NINETY">>
        join(a, b) == IF a = "" THEN b ELSE IF b = "" THEN a ELSE a \o " " \o b
        unit(u) == IF u = 0 THEN "" ELSE units[u]
        below100(r) == IF r < 10 THEN unit(r)
                       ELSE IF r < 20 THEN teens[r - 9]
                       ELSE join(decades[(r \div 10) - 1], unit(r % 10))
        reference(m) == IF m = 0 THEN "ZERO"
                        ELSE join(IF m >= 100
                                  THEN join(units[m \div 100], "HUNDRED")
                                  ELSE "",
                                  below100(m % 100))
        n == data.idx
        str == options[1]
    IN  (data.src = "number" /\ Len(options) = 1) =>
            /\ n <= 999 => str = reference(n)
            /\ n <= 999 => \A m \in 0..999 : numberToWords(m) = str => m = n
            /\ n >= 1000 => str = ToString(n)
            /\ n = 0 => str = "ZERO"
            /\ n = 15 => str = "FIFTEEN"
            /\ n = 42 => str = "FORTY TWO"
            /\ n = 100 => str = "ONE HUNDRED"
            /\ n = 305 => str = "THREE HUNDRED FIVE"

\* the conversions of 305 and of 1000 have been made
C21_Witness ==
    /\ data.src = "number"
    /\ \/ data.idx = 305 /\ options = <<"THREE HUNDRED FIVE">>
       \/ data.idx = 1000 /\ options = <<"1000">>

\* the stored document is absent or corrupt: nothing, an unparsable text,
\* or a parsed value that is not a map with a record for every game type
CorruptDocument(doc) ==
    \/ doc = <<>>
    \/ doc[1] \in {Unparsable, JsonNull, JsonNumber}
    \/ DOMAIN doc[1] # GAME_TYPES

\* C22: whenever the page loads with an absent or corrupt stored document,
\* loadProgress yields the record {level 0, medals 0, completed false} for
\* every known game type and startup reaches the menu (it does not crash).
C22_CorruptFallsBack ==
    [][(reload /\ CorruptDocument(stored)) =>
          /\ progress' = [g \in GAME_TYPES |-> DefaultRecord]
          /\ screen' = "menu"]_vars

\* C23: a delayed callback (the re-render after a Failed outcome or a
\* countdown expiry, the next-level transition after a Succeeded outcome)
\* regenerates only the Challenge that scheduled it: when it replaces the
\* Challenge in #game-content, that Challenge has reported an Outcome.  A
\* Challenge started after a return to the menu, which has reported none,
\* is never replaced by the callback of an earlier Challenge.
C23_CallbackOwnsChallenge ==
    [][CallbackGenerates => outcomes > 0]_vars

\* C24: the level of every record of the stored document is in
\* 0..maxLevels-1: a record never reaches the store with level maxLevels
\* or more, i.e. without the medal / completed / reset transition applied.
C24_PersistedLevelInRange ==
    stored # <<>> =>
        \A g \in DOMAIN stored[1] : stored[1][g].level \in 0..(maxLevels - 1)

\* C25: a Succeeded outcome in game g changes the ProgressRecord of g only:
\* neither the step that reports it nor its delayed nextLevel transition
\* (taken here when it is the only pending callback) changes the level,
\* medals or completed of another game, also after a switch of game.
C25_SuccessChangesOwnRecord ==
    [][/\ SucceededStep =>
            \A g \in GAME_TYPES \ {currentGame} : progress'[g] = progress[g]
       /\ (/\ \E i \in DOMAIN timeouts : nextLevel(i)
           /\ Len(timeouts) = 1
           /\ awaiting.outcome = "Succeeded") =>
            \A g \in GAME_TYPES \ {awaiting.game} : progress'[g] = progress[g]]_vars

\* C26: a hangman key whose letter is in guessedLetters takes no guess:
\* every step that changes mistakes or reports an Outcome of a hangman
\* Challenge adds one new letter to guessedLetters (and the new letter is
\* absent from the word iff mistakes grows, by one), so that mistakes is
\* always the number of distinct guessed letters absent from the word
C26_RepeatedGuessRejected ==
    /\ [](mistakes = Cardinality(guessedLetters \ Letters(hangmanWord)))
    /\ [][(\/ mistakes' > mistakes
           \/ guessedLetters' # guessedLetters /\ guessedLetters' # {}
           \/ OnScreen("hangman") /\ (SucceededStep \/ FailedStep)) =>
            \E l \in GuessLetters(hangmanWord) \ guessedLetters :
                /\ guessedLetters' = guessedLetters \cup {l}
                /\ mistakes' = IF l \in Letters(hangmanWord)
                               THEN mistakes ELSE mistakes + 1]_vars
\* two absent letters and one letter of the word have been guessed, and
\* every key left is one that was not guessed
C26_Witness ==
    /\ chGame = "hangman"
    /\ mistakes = 2
    /\ Cardinality(guessedLetters) = 3
    /\ \E l \in guessedLetters : used(l) /\ l \in Letters(hangmanWord)

\* C27: in step 1 of a grammar Challenge the selection of an index other
\* than the wrong one emits the fail feedback, leaves the Challenge in
\* step 1 and Active, changes neither score, level, any ProgressRecord nor
\* the stored document and schedules nothing; this holds for every such
\* selection, whatever was selected before
C27_WrongIndexKeepsStep1 ==
    [][(/\ OnScreen("grammar")
        /\ grammarStep = 1
        /\ feedback'.handler = "checkGrammarMistake"
        /\ feedback'.arg # ToString(grammarData.wrongIdx)) =>
          /\ feedback'.emitted = "fail"
          /\ grammarStep' = 1
          /\ UNCHANGED <<score, currentLevel, progress, stored, timeouts,
                         chGame, chLevel, currentGrammarData, screen>>]_vars
\* the latest step was a miss in step 1: the fail feedback was emitted, the
\* Challenge is still in step 1 and nothing is pending
C27_Witness ==
    /\ OnScreen("grammar")
    /\ grammarStep = 1
    /\ feedback.handler = "checkGrammarMistake"
    /\ feedback.arg # ToString(grammarData.wrongIdx)
    /\ feedback.emitted = "fail"
    /\ timeouts = <<>>
    /\ score = 0

\* C28: grammar is two-step.  In step 1 a call of checkGrammarCorrection
\* emits nothing and changes nothing; in step 2 a call of
\* checkGrammarMistake emits nothing and changes nothing; grammarStep goes
\* from 1 to 2 only in a call of checkGrammarMistake with the wrong token's
\* index; in step 2 a call of checkGrammarCorrection reports Succeeded if
\* the option is the entry's correct token and Failed otherwise
C28_GrammarTwoStep ==
    [][OnScreen("grammar") =>
          /\ (grammarStep = 1 /\ feedback'.handler = "checkGrammarCorrection") =>
                /\ feedback'.emitted = "none"
                /\ UNCHANGED <<session, progress, stored, timeouts, challenge,
                               grammar>>
          /\ (grammarStep = 2 /\ feedback'.handler = "checkGrammarMistake") =>
                /\ feedback'.emitted = "none"
                /\ UNCHANGED <<session, progress, stored, timeouts, challenge,
                               grammar>>
          /\ (grammarStep = 1 /\ grammarStep' = 2) =>
                /\ feedback'.handler = "checkGrammarMistake"
                /\ feedback'.arg = ToString(grammarData.wrongIdx)
                /\ UNCHANGED <<session, progress, stored, timeouts, challenge,
                               currentGrammarData>>
          /\ (grammarStep = 2 /\ feedback'.handler = "checkGrammarCorrection") =>
                IF feedback'.arg = grammarData.correct
                THEN feedback'.emitted = "success" /\ SucceededStep
                ELSE feedback'.emitted = "fail" /\ FailedStep]_vars
\* the wrong token was found, an index selection was then ignored and the
\* correct option reported Succeeded
C28_Witness ==
    /\ chGame = "grammar"
    /\ grammarStep = 2
    /\ feedback = Call("checkGrammarCorrection", grammarData.correct, "success")
    /\ Len(timeouts) = 1
    /\ timeouts[1].kind = "next"
    /\ score = SCORE_INC

\* the tiles of #letter-pool that are disabled
usedTiles == {t \in DOMAIN letterPool : usedIdx[t] # NoIdx}

filledSlots == {i \in missingIndices : slotText[i] # ""}
placedValues == {slotText[i] : i \in filledSlots}

\* a step of placeInSlot or removeFromSlot: a slot changes and no delayed
\* callback ran
SlotInput == SlotStep /\ Len(timeouts') >= Len(timeouts)

\* C30: in every state of a sequence-fill Challenge the values in the slots
\* and the values of the visible pool buttons are disjoint and together
\* exactly the 4 blanked values, each placed value in one slot; a place
\* input puts a visible pool value into the lowest empty slot and hides its
\* button (with every slot filled no pool button is left to place); a
\* remove input clears one filled slot and shows the button of its value
\* again; no other input changes a slot of the Challenge
C30_PlaceAndRemove ==
    /\ [](chGame \in SequenceGames =>
            /\ Cardinality(poolValues) = 4
            /\ hiddenChips = placedValues
            /\ Cardinality(placedValues) = Cardinality(filledSlots)
            /\ placedValues \cup (poolValues \ hiddenChips) = poolValues
            /\ (filledSlots = missingIndices => poolValues \ hiddenChips = {}))
    /\ [][SlotInput =>
            \/ \E v \in poolValues \ hiddenChips :
                  \E i \in missingIndices \ filledSlots :
                      /\ \A j \in missingIndices \ filledSlots : i <= j
                      /\ slotText' = [slotText EXCEPT ![i] = v]
                      /\ hiddenChips' = hiddenChips \cup {v}
            \/ \E i \in filledSlots :
                  /\ slotText' = [slotText EXCEPT ![i] = ""]
                  /\ hiddenChips' = hiddenChips \ {slotText[i]}
                  /\ UNCHANGED <<session, progress, stored, timeouts>>]_vars
\* a value was removed from a slot between two filled slots: its button is
\* back in the pool and the next place input goes to that slot
C30_Witness ==
    /\ chGame \in SequenceGames
    /\ Cardinality(filledSlots) = 3
    /\ \E i, j, k \in missingIndices :
          /\ i < j /\ j < k
          /\ slotText[i] # "" /\ slotText[j] = "" /\ slotText[k] # ""
          /\ fullList[j + 1] \notin hiddenChips

\* a step of confirmReset: the dialog closes and the game screen opens
ConfirmStep == modalOpen /\ ~modalOpen' /\ screen' = "game"

\* C31: the dialog is open only for a completed game type, at the menu; its
\* confirmation sets that record's level to 0 and completed to false and
\* changes nothing else of the progress map (the medals of the record and
\* every other record stay), the stored document is the new map, and the
\* session of that game starts at level 0 with score 0 on a Challenge
\* generated for level 0
C31_ResetOnlyThatRecord ==
    /\ [](modalOpen =>
            /\ pendingGameType \in GAME_TYPES
            /\ progress[pendingGameType].completed
            /\ screen = "menu")
    /\ [][ConfirmStep =>
            /\ progress' = [progress EXCEPT ![pendingGameType].level = 0,
                                            ![pendingGameType].completed = FALSE]
            /\ progress'[pendingGameType].medals = progress[pendingGameType].medals
            /\ \A g \in GAME_TYPES \ {pendingGameType} : progress'[g] = progress[g]
            /\ stored' = <<progress'>>
            /\ currentGame' = pendingGameType
            /\ currentLevel' = 0
            /\ score' = 0
            /\ chGame' = pendingGameType
            /\ chLevel' = 0]_vars
\* the reset of animal was confirmed: its medal is kept, the level of
\* translate is kept, and the session runs at level 0
C31_Witness ==
    /\ pendingGameType = "animal"
    /\ ~modalOpen
    /\ OnScreen("animal")
    /\ progress.animal = [level |-> 0, medals |-> 1, completed |-> FALSE]
    /\ progress.translate.level = 1
    /\ stored = <<progress>>
    /\ currentLevel = 0
    /\ score = 0

\* a step of startGame that opens a session: the game screen replaces the
\* menu and no dialog was open
StartStep == ~modalOpen /\ screen = "menu" /\ screen' = "game"

\* C32: a session started from the menu grid has score 0 and the level of
\* the game's record, which is the level of the persisted document (0 when
\* nothing is stored), and its first Challenge is generated for that game
\* and that level
C32_StartResumesAtStoredLevel ==
    [][StartStep =>
          /\ ~progress[currentGame'].completed
          /\ score' = 0
          /\ currentLevel' = progress[currentGame'].level
          /\ currentLevel' = loadProgress(stored)[currentGame'].level
          /\ chGame' = currentGame'
          /\ chLevel' = currentLevel']_vars

\* the Challenge on screen has reported an Outcome
Terminal == outcomes > 0
\* a Challenge without Outcome is in #game-content, or the menu is shown
\* after the completion of the current game
Continued ==
    \/ outcomes = 0
    \/ screen = "menu" /\ progress[currentGame].completed

\* C33: with timers that fire, every state in which the Challenge on screen
\* has reported an Outcome is followed by a state in which a new Challenge
\* has been generated or the menu is shown after the completion of the game
C33_OutcomeIsFollowedUp == Terminal ~> Continued
\* the last level was solved and its callbacks have run: the record is
\* completed and the menu is shown, with nothing pending
C33_Witness ==
    /\ Terminal
    /\ screen = "menu"
    /\ progress[currentGame].completed
    /\ awaiting = NoOutcome
    /\ timeouts = <<>>

\* C34: throughout a hangman Challenge the hint in #game-content is the hint
\* of the entry whose word is the target word of the Challenge
C34_HintOfTarget ==
    chGame = "hangman" => hangmanLibrary[hint + 1] = hangmanWord

\* C35: starting from the default record set, every ProgressRecord with
\* completed true has level 0 and at least one medal, and no step lowers the
\* medals of any record.
C35_CompletedRecordShape ==
    /\ [](\A g \in GAME_TYPES : progress[g].completed =>
              /\ progress[g].level = 0
              /\ progress[g].medals >= 1)
    /\ [][\A g \in GAME_TYPES : progress'[g].medals >= progress[g].medals]_vars


\* C36: in every sequence-fill Challenge, of the 7 days or the 12 months,
\* exactly 4 pairwise distinct positions of the list are blanked, every
\* other position shows the value of the list, and the pool is a
\* permutation of exactly the 4 blanked values.
SameItems(p, q) ==
    /\ Len(p) = Len(q)
    /\ \A v \in Letters(p) \cup Letters(q) :
           Cardinality({k \in DOMAIN p : p[k] = v}) = Cardinality({k \in DOMAIN q : q[k] = v})
C36_FourBlanksAndTheirPool ==
    chGame \in SequenceGames =>
        /\ fullList = sequenceList(chGame)
        /\ Len(fullList) = (IF chGame = "days" THEN 7 ELSE 12)
        /\ missingIndices \subseteq 0..(Len(fullList) - 1)
        /\ Cardinality(missingIndices) = 4
        /\ DOMAIN slotText = missingIndices
        /\ \A idx \in (0..(Len(fullList) - 1)) \ missingIndices :
               sequenceDisplay[idx] = sequenceList(chGame)[idx + 1]
        /\ \A pool \in shuffledPools :
               /\ Len(pool) = 4
               /\ Letters(pool) = {sequenceList(chGame)[i + 1] : i \in missingIndices}
               /\ Cardinality(Letters(pool)) = 4
               /\ SameItems(pool, correctAnswers)
\* a months Challenge rendered again after a success, nothing placed yet
C36_Witness ==
    /\ chGame = "months" /\ screen = "game"
    /\ currentLevel = 1 /\ chLevel = 1
    /\ missingIndices = {0, 2, 3, 4}
    /\ \A i \in missingIndices : slotText[i] = ""
    /\ sequenceDisplay[1] = "February"
    /\ correctAnswers = <<"January", "March", "April", "May">>
    /\ timeouts = <<>>


\* C37: the letter pool of a letter-assembly Challenge has exactly
\* len(answer) + 3 + min(6, floor(level / 5)) tiles and is a permutation of
\* the letters of the answer followed by that many noise letters, so that
\* the answer can be assembled from it; the number of noise letters at a
\* level is at least the number at every lower level.
Count(p, v) == Cardinality({k \in DOMAIN p : p[k] = v})
C37_PoolIsAnswerPlusNoise ==
    chGame = "guess" =>
        LET word  == guessPool[(chLevel % 5) + 1]
            noise == Len(letterPool) - Len(word)
        IN  /\ Len(letterPool) = Len(word) + 3 + Min(6, chLevel \div 5)
            /\ \E extras \in [1..noise -> ExtraLetters] :
                   SameItems(letterPool, word \o extras)
            /\ \A v \in Letters(word) : Count(letterPool, v) >= Count(word, v)
            /\ \A l \in 0..chLevel : \A e \in Extras(l) : Len(e) <= noise
            /\ currentGuess = <<>>
\* level 32: LION with 3 + 6 noise letters
C37_Witness ==
    /\ chGame = "guess" /\ chLevel = 32
    /\ Len(letterPool) = 13
    /\ Count(letterPool, "Q") = 4
    /\ letterPool[13] = "L"


\* C38: in the number games the target v satisfies
\* 0 <= v < min(300, 20 + level), a range that does not shrink as the level
\* grows, and every number an option is made of, target or distractor, is
\* below 1000, so that no option of the number-to-words game is a digit
\* string.
Cap(level) == IF 20 + level < 300 THEN 20 + level ELSE 300
C38_NumbersInRange ==
    currentGame \in NumberGames =>
        /\ data # NoData =>
               /\ data.idx >= 0
               /\ data.idx < Cap(currentLevel)
               /\ \A l \in 0..currentLevel : data.idx < Cap(currentLevel + l)
        /\ \A l \in 0..currentLevel : range(l) <= range(currentLevel)
        /\ rand # NoRand => rand >= 0 /\ rand < 1000
        /\ \A k \in DOMAIN options :
               IF currentGame = "wordToNum"
               THEN options[k] \in 0..999
               ELSE /\ \E n \in 0..999 : options[k] = numberToWords(n)
                    /\ \A n \in 0..(Cap(currentLevel) + 10) : options[k] # ToString(n)
\* level 281 of the number-to-words game: target 299, a distractor drawn
\* as 309
C38_Witness ==
    /\ currentGame = "numToWord" /\ chGame = "numToWord"
    /\ currentLevel = 281
    /\ data.idx = 299
    /\ rand = 309
    /\ \E k \in DOMAIN options : options[k] = "THREE HUNDRED NINE"
    /\ \E k \in DOMAIN options : options[k] = "TWO HUNDRED NINETY NINE"


\* C39: in every category-choice Challenge exactly one of the 4 options is
\* a correct translation of the prompt: no distractor is a word of the
\* library whose translation is the text of the prompt.
C39_OneCorrectTranslation ==
    chGame \in CategoryGames =>
        LET library == libraryOf[chGame]
            prompt  == fa(library, data.idx)
        IN  /\ Len(options) = 4
            /\ Cardinality({k \in DOMAIN options : fa(library, options[k]) = prompt}) = 1
            /\ \A k \in DOMAIN options :
                   options[k] # data.idx => fa(library, options[k]) # prompt

====
